---- MODULE Spec2Model ----
(***************************************************************************)
(* Model of the context-continuity ledger (memory_store.py), its CLI       *)
(* front end (capture_event.py) and the integrity verifier                 *)
(* (verify_memory.py).                                                     *)
(*                                                                         *)
(* Conventions.                                                            *)
(*  - A JSON object is a TLA+ record whose domain is the set of keys that  *)
(*    are present.  A key that is absent, null, or holds a value of the    *)
(*    wrong JSON type is modelled as an absent key: the code reads every   *)
(*    field with dict.get and an isinstance test, so the three cases take  *)
(*    the same branch.                                                     *)
(*  - A line of the ledger file is a record tagged "blank", "garbage" (not *)
(*    valid JSON), "scalar" (valid JSON, not an object) or "object".       *)
(*  - SHA-256 is modelled symbolically: the digest of a text is the pair   *)
(*    <<"sha256", text>>, so two digests are equal exactly when the texts  *)
(*    are (collision freedom).  The empty string in a hash position is the *)
(*    empty tuple NoHash.                                                  *)
(*  - uuid4().hex[:8] is modelled as a fresh token: the number of draws    *)
(*    made so far (no two draws collide).                                  *)
(*  - A write that raises appends nothing (torn lines are out of scope).   *)
(***************************************************************************)
EXTENDS Integers, Sequences, FiniteSets, TLC

VARIABLES
    ledgerExists,   \* events.jsonl exists on disk
    ledger,         \* the lines of events.jsonl, in file order
    lock,           \* holder of the flock on events.jsonl.lock, or NoProc
    pc,             \* position of each capture_event process
    args,           \* the command line each process was started with
    last_event,     \* append_event local: the record read under the lock
    event,          \* append_event local: the record about to be written
    raised,         \* an exception is propagating through append_event
    now,            \* the wall clock, in seconds
    uuidDraws,      \* how many uuid4() values have been drawn
    acquired,       \* history: the processes that took the lock, in order
    report,         \* what the last verify_memory run printed and returned
    phase,          \* which scenario step the single-writer scenarios are in
    pristine,       \* history: the ledger as it was before tampering
    rpc,            \* position of the repair_events_chain process
    dry_run,        \* repair: args.dry_run
    events,         \* repair local: the records load_events returned
    repaired,       \* repair local: normalize_chain(events)
    changed,        \* repair local: some record differs from its repaired form
    tmp,            \* the file events.jsonl.tmp
    backups,        \* the files events.jsonl.bak.<ts>, by their <ts>
    preRepair,      \* history: the ledger file when the current repair run began
    runLog,         \* history: how each repair run that ended left the files
    refsFile,       \* the file context/refs.json
    commits,        \* the files context/commits/<commit_id>.json, by commit_id
    lastOp,         \* the last context_ops invocation: its action and exit status
    record_event,   \* the --record-event policy the session invokes context_ops with
    typed_json,     \* the file typed-memory.json
    tmRun,          \* what the last typed_memory run computed and printed
    sections,       \* the characters of each section text rehydrate extracts
    rhRun,          \* what the last rehydrate run computed and printed
    cycle_state,    \* the file automation/auto-cycle-state.json
    cyRun           \* what the last auto_cycle run did and returned

repairVars == <<rpc, dry_run, events, repaired, changed, tmp, backups, preRepair,
                runLog>>

ctxVars == <<refsFile, commits, lastOp, record_event>>

toolVars == <<typed_json, tmRun, sections, rhRun, cycle_state, cyRun>>

vars == <<ledgerExists, ledger, lock, pc, args, last_event, event, raised,
          now, uuidDraws, acquired, report, phase, pristine, repairVars, ctxVars,
          toolVars>>

-----------------------------------------------------------------------------
(* Bounds *)

NumProcs == 3
MaxClock == 1
MaxLines == 3

Procs == 1..NumProcs
NoProc == 0

-----------------------------------------------------------------------------
(* Values *)

NoneObj == [null |-> TRUE]
NoHash == <<>>
EmptyPayload == <<>>

SchemaTag == "context-continuity-event-v1"
RepoRoot == "/repo"
RepoId == "repo--0123456789"

StatusChoices == {"info", "success", "warning", "failure"}

\* the entries of the working tree that exist (Path.exists)
ExistingPaths == {"a.py"}

\* str.strip over the strings the model uses
Strip(s) ==
    CASE s = " " -> ""
      [] s = "   " -> ""
      [] s = " fix b " -> "fix b"
      [] s = " gone.py" -> "gone.py"
      [] OTHER -> s

\* the first occurrence of every item, in the order of first occurrence
unique_keep_order(items) ==
    LET first == {i \in 1..Len(items) : \A j \in 1..(i - 1) : items[j] # items[i]}
        nth(n) == CHOOSE i \in first : Cardinality({j \in first : j <= i}) = n
    IN [n \in 1..Cardinality(first) |-> items[nth(n)]]

\* [x.strip() for x in (items or []) if x and x.strip()], then deduplicated
StripAll(items) == [i \in 1..Len(items) |-> Strip(items[i])]

CleanList(items) ==
    unique_keep_order(StripAll(SelectSeq(items, LAMBDA x : x # "" /\ Strip(x) # "")))

\* utc_now_iso at clock reading t
utc_now_iso(t) == "2024-05-01T10:00:0" \o ToString(t) \o "Z"

\* utc_now_iso() with ':', '-', 'Z' removed and 'T' turned into '-'
EventIdStamp(t) == "20240501-10000" \o ToString(t)

\* datetime.fromisoformat succeeds
parse_iso8601(value) == \E t \in 0..9 : value = utc_now_iso(t)

\* json.dumps(obj, sort_keys=True, separators=(",", ":")): the canonical text
\* of an object, one line of the file
stable_json(obj) == [tag |-> "object", obj |-> obj]

hash_event(payload_without_hash) == <<"sha256", stable_json(payload_without_hash)>>

\* dict(obj) with key k popped
Without(obj, k) == [x \in DOMAIN obj \ {k} |-> obj[x]]

\* dict(obj) with obj[k] = v
With(obj, k, v) == [x \in DOMAIN obj \cup {k} |-> IF x = k THEN v ELSE obj[x]]

NonBlank(lines) == SelectSeq(lines, LAMBDA l : l.tag # "blank")

read_last_jsonl_obj(exists, lines) ==
    IF ~exists THEN NoneObj
    ELSE LET nb == NonBlank(lines) IN
         IF nb = <<>> THEN NoneObj
         ELSE IF nb[Len(nb)].tag = "object" THEN nb[Len(nb)].obj
         ELSE NoneObj

count_nonempty_lines(exists, lines) ==
    IF ~exists THEN 0 ELSE Len(NonBlank(lines))

IsDict(x) == "null" \notin DOMAIN x

\* v in (None, [], {}, ""), by the type of the field
IsEmptyValue(k, v) ==
    CASE k \in {"schema", "event_id", "timestamp", "repo_root", "repo_id",
                "kind", "status", "summary", "source", "task"} -> v = ""
      [] k \in {"paths", "symbols", "commands", "refs"} -> v = <<>>
      [] k = "payload" -> v = EmptyPayload
      [] k = "prev_hash" -> v = NoHash
      [] OTHER -> FALSE

DropEmpty(obj) ==
    [k \in {x \in DOMAIN obj : ~IsEmptyValue(x, obj[x])} |-> obj[k]]

\* mutant: the chain link is never set
NextPrevHashUnlinked(last) == NoHash

\* the prev_hash append_event derives from the record it read
NextPrevHash(last) ==
    IF IsDict(last) /\ "hash" \in DOMAIN last /\ last.hash # NoHash
    THEN last.hash ELSE NoHash

\* mutant: the lines are always counted, whatever the last record says
NextSeqByCount(last, exists, lines) == count_nonempty_lines(exists, lines) + 1

\* mutant: the increment is forgotten
NextSeqNoIncrement(last, exists, lines) ==
    IF IsDict(last) /\ "seq" \in DOMAIN last
    THEN last.seq
    ELSE count_nonempty_lines(exists, lines) + 1

\* the seq append_event derives from the record it read
NextSeq(last, exists, lines) ==
    IF IsDict(last) /\ "seq" \in DOMAIN last
    THEN last.seq + 1
    ELSE count_nonempty_lines(exists, lines) + 1

\* the dict literal of append_event: a are the keyword arguments, t1 and t2
\* the two clock readings, u the uuid4 draw
EventFields(a, last, exists, lines, t1, t2, u) ==
       [schema |-> SchemaTag,
        seq |-> NextSeq(last, exists, lines),
        event_id |-> EventIdStamp(t1) \o "-" \o ToString(u),
        timestamp |-> utc_now_iso(t2),
        repo_root |-> RepoRoot,
        repo_id |-> RepoId,
        kind |-> Strip(a.kind),
        status |-> Strip(a.status),
        summary |-> Strip(a.summary),
        source |-> Strip(a.source),
        task |-> Strip(a.task),
        paths |-> CleanList(a.paths),
        symbols |-> CleanList(a.symbols),
        commands |-> CleanList(a.commands),
        refs |-> CleanList(a.refs),
        payload |-> a.payload,
        prev_hash |-> NextPrevHash(last)]

\* event_no_hash of append_event, once the empty fields are dropped
EventNoHash(a, last, exists, lines, t1, t2, u) ==
    DropEmpty(EventFields(a, last, exists, lines, t1, t2, u))

\* event = dict(event_no_hash); event["hash"] = hash_event(event_no_hash)
Sealed(event_no_hash) == With(event_no_hash, "hash", hash_event(event_no_hash))

\* mutant: the file is opened with mode "w"
AppendJsonlTruncating(lines, obj) == <<stable_json(obj)>>

\* path.open("a").write(stable_json(obj) + "\n")
append_jsonl(lines, obj) == Append(lines, stable_json(obj))

-----------------------------------------------------------------------------
(* verify_memory.py *)

Finding(line_no, what) == [line |-> line_no, what |-> what]

NoReport == [ran |-> FALSE]

ScanInit ==
    [previous_hash |-> NoHash, previous_seq |-> 0, seen_ids |-> {},
     event_count |-> 0, errors |-> <<>>, warnings |-> <<>>]

\* a non-blank line that json.loads rejects, or that is not an object
BadLineFindings(line_no, line) ==
    IF line.tag = "garbage" THEN <<Finding(line_no, "invalid JSON")>>
    ELSE IF line.tag # "object" THEN <<Finding(line_no, "not an object")>>
    ELSE <<>>

SchemaFindings(line_no, ev) ==
    IF "schema" \in DOMAIN ev /\ ev.schema = SchemaTag THEN <<>>
    ELSE <<Finding(line_no, "unexpected schema")>>

SeqFindings(line_no, ev, previous_seq) ==
    IF "seq" \notin DOMAIN ev \/ ev.seq <= 0
    THEN <<Finding(line_no, "invalid seq")>>
    ELSE IF ev.seq # previous_seq + 1
    THEN <<Finding(line_no, "non-contiguous seq")>>
    ELSE <<>>

\* previous_seq = seq if isinstance(seq, int) else previous_seq
SeqAfter(ev, previous_seq) ==
    IF "seq" \in DOMAIN ev THEN ev.seq ELSE previous_seq

IdFindings(line_no, ev, seen_ids) ==
    IF "event_id" \notin DOMAIN ev \/ Strip(ev.event_id) = ""
    THEN <<Finding(line_no, "missing/invalid event_id")>>
    ELSE IF ev.event_id \in seen_ids
    THEN <<Finding(line_no, "duplicate event_id")>>
    ELSE <<>>

SeenAfter(ev, seen_ids) ==
    IF "event_id" \in DOMAIN ev /\ Strip(ev.event_id) # ""
    THEN seen_ids \cup {ev.event_id} ELSE seen_ids

TimestampFindings(line_no, ev) ==
    IF "timestamp" \notin DOMAIN ev \/ ~parse_iso8601(ev.timestamp)
    THEN <<Finding(line_no, "invalid timestamp")>>
    ELSE <<>>

\* str(event.get("prev_hash") or "")
PrevHashOf(ev) == IF "prev_hash" \in DOMAIN ev THEN ev.prev_hash ELSE NoHash

\* mutant: the chain link is not compared
PrevHashFindingsNone(line_no, ev, previous_hash) == <<>>

PrevHashFindings(line_no, ev, previous_hash) ==
    IF previous_hash # NoHash /\ PrevHashOf(ev) # previous_hash
    THEN <<Finding(line_no, "prev_hash mismatch")>>
    ELSE <<>>

FirstPrevHashWarnings(line_no, ev, previous_hash) ==
    IF previous_hash = NoHash /\ PrevHashOf(ev) # NoHash
    THEN <<Finding(line_no, "first event has prev_hash set")>>
    ELSE <<>>

HasHash(ev) == "hash" \in DOMAIN ev /\ ev.hash # NoHash

\* mutant: the stored hash is only required to be present
HashFindingsPresenceOnly(line_no, ev) ==
    IF ~HasHash(ev) THEN <<Finding(line_no, "missing hash")>> ELSE <<>>

HashFindings(line_no, ev) ==
    IF ~HasHash(ev) THEN <<Finding(line_no, "missing hash")>>
    ELSE IF hash_event(Without(ev, "hash")) # ev.hash
    THEN <<Finding(line_no, "hash mismatch")>>
    ELSE <<>>

\* previous_hash = current_hash, only on the branch where the hash is a string
HashAfter(ev, previous_hash) == IF HasHash(ev) THEN ev.hash ELSE previous_hash

RECURSIVE RefListWarnings(_, _)
RefListWarnings(line_no, refs) ==
    IF refs = <<>> THEN <<>>
    ELSE (IF Strip(refs[1]) = ""
          THEN <<Finding(line_no, "invalid empty reference")>>
          ELSE IF refs[1] \notin ExistingPaths
          THEN <<Finding(line_no, "referenced path not found")>>
          ELSE <<>>) \o RefListWarnings(line_no, Tail(refs))

RefWarnings(line_no, ev) ==
    (IF "paths" \in DOMAIN ev THEN RefListWarnings(line_no, ev.paths) ELSE <<>>)
    \o (IF "refs" \in DOMAIN ev THEN RefListWarnings(line_no, ev.refs) ELSE <<>>)

\* the body of the scanning loop for one well-formed record
CheckEvent(st, line_no, ev) ==
    [previous_hash |-> HashAfter(ev, st.previous_hash),
     previous_seq |-> SeqAfter(ev, st.previous_seq),
     seen_ids |-> SeenAfter(ev, st.seen_ids),
     event_count |-> st.event_count,
     errors |-> st.errors
                \o SeqFindings(line_no, ev, st.previous_seq)
                \o IdFindings(line_no, ev, st.seen_ids)
                \o TimestampFindings(line_no, ev)
                \o PrevHashFindings(line_no, ev, st.previous_hash)
                \o HashFindings(line_no, ev),
     warnings |-> st.warnings
                \o SchemaFindings(line_no, ev)
                \o FirstPrevHashWarnings(line_no, ev, st.previous_hash)
                \o RefWarnings(line_no, ev)]

\* mutant: the loop stops checking after the first error
ScanLineFailFast(st, line_no, line) ==
    IF line.tag = "blank" \/ st.errors # <<>> THEN st
    ELSE LET counted == [st EXCEPT !.event_count = @ + 1] IN
         IF line.tag # "object"
         THEN [counted EXCEPT !.errors = @ \o BadLineFindings(line_no, line)]
         ELSE CheckEvent(counted, line_no, line.obj)

\* one iteration of the scanning loop
ScanLine(st, line_no, line) ==
    IF line.tag = "blank" THEN st
    ELSE LET counted == [st EXCEPT !.event_count = @ + 1] IN
         IF line.tag # "object"
         THEN [counted EXCEPT !.errors = @ \o BadLineFindings(line_no, line)]
         ELSE CheckEvent(counted, line_no, line.obj)

RECURSIVE ScanLines(_, _)
\* the scanning loop over the first n lines
ScanLines(lines, n) ==
    IF n = 0 THEN ScanInit
    ELSE ScanLine(ScanLines(lines, n - 1), n, lines[n])

\* mutant: warnings fail the run whether or not --strict was given
VerifyExitAlwaysStrict(errors, warnings, strict) ==
    IF errors # <<>> THEN 2
    ELSE IF warnings # <<>> THEN 3
    ELSE 0

\* the process exit status
VerifyExit(errors, warnings, strict) ==
    IF errors # <<>> THEN 2
    ELSE IF warnings # <<>> /\ strict THEN 3
    ELSE 0

\* main of verify_memory.py
Verify(exists, lines, strict) ==
    LET st == IF exists THEN ScanLines(lines, Len(lines))
              ELSE [ScanInit EXCEPT !.errors = <<Finding(0, "events file missing")>>]
    IN [ran |-> TRUE, strict |-> strict, errors |-> st.errors,
        warnings |-> st.warnings, events_checked |-> st.event_count,
        exit |-> VerifyExit(st.errors, st.warnings, strict)]

-----------------------------------------------------------------------------
(* capture_event.py: the command line *)

\* the argparse defaults
DefaultArgs ==
    [kind |-> "note", status |-> "info", summary |-> "fix a", source |-> "manual",
     task |-> "", paths |-> <<>>, symbols |-> <<>>, commands |-> <<>>,
     refs |-> <<>>, payload |-> EmptyPayload]

NoArgs == [null |-> TRUE]

\* the command lines the processes are started with; the last one omits --summary
ArgSpace ==
    { [DefaultArgs EXCEPT !.status = "warning", !.summary = " fix b ", !.task = "t1",
                          !.paths = <<"a.py", " gone.py", "gone.py", " ">>,
                          !.payload = [note |-> "x"]],
      [DefaultArgs EXCEPT !.status = "failure", !.summary = "   "],
      [DefaultArgs EXCEPT !.status = "bogus"],
      Without(DefaultArgs, "summary") }

\* ap.parse_args(): --status has choices, --summary is required
ArgparseAccepts(a) == a.status \in StatusChoices /\ "summary" \in DOMAIN a

-----------------------------------------------------------------------------
(* repair_events_chain.py: the state before any run *)

NoFile == [exists |-> FALSE]

RepairInit ==
    /\ rpc = "idle"
    /\ dry_run = FALSE
    /\ events = <<>>
    /\ repaired = <<>>
    /\ changed = FALSE
    /\ tmp = NoFile
    /\ backups = <<>>
    /\ preRepair = NoFile
    /\ runLog = <<>>

-----------------------------------------------------------------------------
(* context_ops.py: the state before any invocation *)

NoOp == [action |-> "none"]

CtxInit ==
    /\ refsFile = NoFile
    /\ commits = <<>>
    /\ lastOp = NoOp
    /\ record_event = "on-change"

-----------------------------------------------------------------------------
(* typed_memory.py and rehydrate.py: the state before any run *)

NoRun == [ran |-> FALSE]

\* no typed-memory.json, no section text in the notes, no run yet
ToolInit ==
    /\ typed_json = NoFile
    /\ tmRun = NoRun
    /\ sections = <<>>
    /\ rhRun = NoRun
    /\ cycle_state = NoFile
    /\ cyRun = NoRun

-----------------------------------------------------------------------------
(* memory_store.py: append_event, step by step, one process per call *)

\* mutant: LOCK_EX never waits for the holder
LockFreeNoWait(l) == TRUE

\* fcntl.flock(LOCK_EX) returns
LockFree(l) == l = NoProc

\* mutant: LOCK_UN after the yield, without try/finally
LockAfterExitNoFinally(holder, exc) == IF exc THEN holder ELSE NoProc

\* the lock after the finally clause of event_file_lock has run
LockAfterExit(holder, exc) == NoProc

Call(p, a) ==
    /\ pc[p] = "idle"
    /\ args' = [args EXCEPT ![p] = a]
    /\ pc' = [pc EXCEPT ![p] = IF ArgparseAccepts(a) THEN "waiting" ELSE "usage_error"]
    /\ UNCHANGED <<ledgerExists, ledger, lock, last_event, event, raised, now,
                   uuidDraws, acquired, report, phase, pristine>>
    /\ UNCHANGED <<repairVars, ctxVars, toolVars>>

Acquire(p) ==
    /\ pc[p] = "waiting"
    /\ LockFree(lock)
    /\ lock' = p
    /\ acquired' = Append(acquired, p)
    /\ pc' = [pc EXCEPT ![p] = "locked"]
    /\ UNCHANGED <<ledgerExists, ledger, args, last_event, event, raised, now,
                   uuidDraws, report, phase, pristine>>
    /\ UNCHANGED <<repairVars, ctxVars, toolVars>>

\* an exception leaves the with-block through the finally clause
Raise(p) ==
    /\ pc[p] \in {"locked", "read", "hashed"}
    /\ raised' = [raised EXCEPT ![p] = TRUE]
    /\ pc' = [pc EXCEPT ![p] = "unwinding"]
    /\ last_event' = [last_event EXCEPT ![p] = NoneObj]
    /\ event' = [event EXCEPT ![p] = NoneObj]
    /\ UNCHANGED <<ledgerExists, ledger, lock, args, now, uuidDraws, acquired,
                   report, phase, pristine>>
    /\ UNCHANGED <<repairVars, ctxVars, toolVars>>

ReadLast(p) ==
    /\ pc[p] = "locked"
    /\ last_event' = [last_event EXCEPT ![p] = read_last_jsonl_obj(ledgerExists, ledger)]
    /\ pc' = [pc EXCEPT ![p] = "read"]
    /\ UNCHANGED <<ledgerExists, ledger, lock, args, event, raised, now, uuidDraws,
                   acquired, report, phase, pristine>>
    /\ UNCHANGED <<repairVars, ctxVars, toolVars>>

Compute(p) ==
    /\ pc[p] = "read"
    /\ \E fields \in {EventFields(args[p], last_event[p], ledgerExists, ledger,
                                   now, now, uuidDraws + 1)} :
       \E event_no_hash \in {DropEmpty(fields)} :
          event' = [event EXCEPT ![p] = Sealed(event_no_hash)]
    /\ uuidDraws' = uuidDraws + 1
    /\ pc' = [pc EXCEPT ![p] = "hashed"]
    /\ UNCHANGED <<ledgerExists, ledger, lock, args, last_event, raised, now,
                   acquired, report, phase, pristine>>
    /\ UNCHANGED <<repairVars, ctxVars, toolVars>>

Write(p) ==
    /\ pc[p] = "hashed"
    /\ ledger' = append_jsonl(ledger, event[p])
    /\ ledgerExists' = TRUE
    /\ pc' = [pc EXCEPT ![p] = "written"]
    /\ UNCHANGED <<lock, args, last_event, event, raised, now, uuidDraws, acquired,
                   report, phase, pristine>>
    /\ UNCHANGED <<repairVars, ctxVars, toolVars>>

\* the with-block is left and the process ends: its locals are gone
Release(p) ==
    /\ pc[p] \in {"written", "unwinding"}
    /\ lock' = LockAfterExit(lock, raised[p])
    /\ pc' = [pc EXCEPT ![p] = IF raised[p] THEN "failed" ELSE "returned"]
    /\ args' = [args EXCEPT ![p] = NoArgs]
    /\ last_event' = [last_event EXCEPT ![p] = NoneObj]
    /\ event' = [event EXCEPT ![p] = NoneObj]
    /\ raised' = [raised EXCEPT ![p] = FALSE]
    /\ UNCHANGED <<ledgerExists, ledger, now, uuidDraws, acquired, report, phase,
                   pristine>>
    /\ UNCHANGED <<repairVars, ctxVars, toolVars>>

\* a second passes
Tick ==
    /\ now < MaxClock
    /\ now' = now + 1
    /\ UNCHANGED <<ledgerExists, ledger, lock, pc, args, last_event, event, raised,
                   uuidDraws, acquired, report, phase, pristine>>
    /\ UNCHANGED <<repairVars, ctxVars, toolVars>>

\* one run of verify_memory.py, in the single-writer scenarios
VerifyRun(strict) ==
    /\ phase \in {"build", "tampered"}
    /\ report' = Verify(ledgerExists, ledger, strict)
    /\ phase' = IF phase = "build" THEN "verified" ELSE "verified_tampered"
    /\ UNCHANGED <<ledgerExists, ledger, lock, pc, args, last_event, event, raised,
                   now, uuidDraws, acquired, pristine>>
    /\ UNCHANGED <<repairVars, ctxVars, toolVars>>

Init ==
    /\ ledgerExists = FALSE
    /\ ledger = <<>>
    /\ lock = NoProc
    /\ pc = [p \in Procs |-> "idle"]
    /\ args = [p \in Procs |-> NoArgs]
    /\ last_event = [p \in Procs |-> NoneObj]
    /\ event = [p \in Procs |-> NoneObj]
    /\ raised = [p \in Procs |-> FALSE]
    /\ now = 0
    /\ uuidDraws = 0
    /\ acquired = <<>>
    /\ report = NoReport
    /\ phase = "concurrent"
    /\ pristine = <<>>
    /\ RepairInit
    /\ CtxInit
    /\ ToolInit

Step(p) ==
    \/ \E a \in ArgSpace : Call(p, a)
    \/ Acquire(p)
    \/ ReadLast(p)
    \/ Compute(p)
    \/ Write(p)
    \/ Raise(p)
    \/ Release(p)

Next ==
    \/ \E p \in Procs : Step(p)
    \/ Tick

Spec == Init /\ [][Next]_vars

\* the append calls alone, within one second
NextAppend == \E p \in Procs : Step(p)

\* every runnable process is scheduled, and flock grants a free lock to a waiter
FairSpec == Init /\ [][NextAppend]_vars /\ \A p \in Procs : WF_vars(Step(p))

-----------------------------------------------------------------------------
(* Properties of concurrent appends (Spec, FairSpec) *)

Wrote == {p \in Procs : pc[p] \in {"written", "returned"}}

\* C1: whatever the interleaving of the append calls on an initially empty
\* ledger, the ledger holds exactly one record per call that has written, and
\* the record at position i has seq = i (so N calls end with seq 1..N, no gap,
\* no duplicate).
C1_AppendAtomicity ==
    /\ Len(ledger) = Cardinality(Wrote)
    /\ \A i \in 1..Len(ledger) :
          ledger[i].tag = "object" /\ ledger[i].obj.seq = i

\* all the calls were accepted and have returned, and they did not take the
\* lock in the order of their process numbers
C1_Witness ==
    /\ \A p \in Procs : pc[p] = "returned"
    /\ Len(ledger) = NumProcs
    /\ acquired[1] = NumProcs

\* C2: in every reachable state the first record has no prev_hash, every
\* later record's prev_hash is the hash of the record before it, and every
\* record's hash is the digest of the record without its hash field.
C2_ChainIntegrity ==
    \A i \in 1..Len(ledger) :
        LET e == ledger[i].obj IN
        /\ i = 1 => "prev_hash" \notin DOMAIN e
        /\ i > 1 => "prev_hash" \in DOMAIN e /\ e.prev_hash = ledger[i - 1].obj.hash
        /\ "hash" \in DOMAIN e /\ e.hash = hash_event(Without(e, "hash"))

C2_Witness ==
    /\ Len(ledger) >= 2
    /\ "prev_hash" \in DOMAIN ledger[2].obj
    /\ ledger[2].obj.prev_hash # NoHash

\* C3: the ledger changes only in the write step of an append, and that step
\* adds exactly one line at the end and leaves the earlier lines as they were.
C3_AppendOnly ==
    [][ IF \E p \in Procs : pc[p] = "hashed" /\ pc'[p] = "written"
        THEN /\ Len(ledger') = Len(ledger) + 1
             /\ SubSeq(ledger', 1, Len(ledger)) = ledger
        ELSE ledger' = ledger ]_vars

\* an append has completed on a ledger that already held a record
C3_Witness ==
    /\ \E p \in Procs : pc[p] = "written"
    /\ Len(ledger) >= 2

\* what the ledger's contract asks of a call
ValidCall(a) ==
    /\ "summary" \in DOMAIN a
    /\ Strip(a.summary) # ""
    /\ a.status \in StatusChoices

\* C4: a call whose summary is empty after trimming, or whose status is not
\* one of the four recognized values, is rejected and appends no line.
C4_RejectsInvalid ==
    \A p \in Procs : pc[p] = "written" => ValidCall(args[p])

\* C5: the lock is never left held by an append that has ended, in error or
\* not, and every append waiting for the lock eventually takes it and ends.
C5_LockReleased ==
    /\ [](\A p \in Procs : lock = p => pc[p] \in {"locked", "read", "hashed",
                                                   "written", "unwinding"})
    /\ \A p \in Procs : (pc[p] = "waiting") ~> (pc[p] \in {"returned", "failed"})

\* an append failed under the lock and a later append took the lock and returned
C5_Witness ==
    \E i \in 1..Len(acquired) : \E j \in 1..Len(acquired) :
        /\ i < j
        /\ pc[acquired[i]] = "failed"
        /\ pc[acquired[j]] = "returned"

-----------------------------------------------------------------------------
(* Single-writer scenarios: a ledger is built, possibly tampered with, and   *)
(* then verified once.                                                       *)

\* the command lines argparse lets through
AcceptedArgs == {a \in ArgSpace : ArgparseAccepts(a)}

\* the record append_event writes for keyword arguments a on the current file
AppendedEvent(a) ==
    Sealed(EventNoHash(a, read_last_jsonl_obj(ledgerExists, ledger), ledgerExists,
                       ledger, now, now, uuidDraws + 1))

\* a whole capture_event call, with no other process at the lock
AppendEvent(a) ==
    /\ phase = "build"
    /\ Len(ledger) < MaxLines
    /\ LockFree(lock)
    /\ ledger' = append_jsonl(ledger, AppendedEvent(a))
    /\ ledgerExists' = TRUE
    /\ uuidDraws' = uuidDraws + 1
    /\ UNCHANGED <<lock, pc, args, last_event, event, raised, now, acquired, report,
                   phase, pristine>>
    /\ UNCHANGED <<repairVars, ctxVars, toolVars>>

\* the file may have been created empty (bootstrap) or not exist yet
InitBuild ==
    /\ ledgerExists \in BOOLEAN
    /\ ledger = <<>>
    /\ lock = NoProc
    /\ pc = [p \in Procs |-> "idle"]
    /\ args = [p \in Procs |-> NoArgs]
    /\ last_event = [p \in Procs |-> NoneObj]
    /\ event = [p \in Procs |-> NoneObj]
    /\ raised = [p \in Procs |-> FALSE]
    /\ now = 0
    /\ uuidDraws = 0
    /\ acquired = <<>>
    /\ report = NoReport
    /\ phase = "build"
    /\ pristine = <<>>
    /\ RepairInit
    /\ CtxInit
    /\ ToolInit

\* a digest that is the hash of no record of the ledger
BogusHash == hash_event([forged |-> TRUE])

(* Arbitrary file content.  A line is the record append_event would write    *)
(* next, with one defect; except for the two hash defects the hash is        *)
(* recomputed over the defective record, as a writer who knows the format    *)
(* would.                                                                    *)
Defects ==
    {"blank", "garbage", "scalar", "none", "seq_absent", "seq_zero", "seq_skip",
     "id_blank", "id_reuse", "ts_invalid", "prev_absent", "prev_bogus",
     "schema_other", "hash_absent", "hash_stale"}

FirstEventId(lines, default) ==
    LET objs == SelectSeq(lines, LAMBDA l : l.tag = "object" /\ "event_id" \in DOMAIN l.obj)
    IN IF objs = <<>> THEN default ELSE objs[1].obj.event_id

\* the record without its hash, with defect d
Defective(e, d, lines) ==
    CASE d = "seq_absent" -> Without(e, "seq")
      [] d = "seq_zero" -> With(e, "seq", 0)
      [] d = "seq_skip" -> With(e, "seq", e.seq + 1)
      [] d = "id_blank" -> With(e, "event_id", " ")
      [] d = "id_reuse" -> With(e, "event_id", FirstEventId(lines, e.event_id))
      [] d = "ts_invalid" -> With(e, "timestamp", "yesterday")
      [] d = "prev_absent" -> Without(e, "prev_hash")
      [] d = "prev_bogus" -> With(e, "prev_hash", BogusHash)
      [] d = "schema_other" -> With(e, "schema", "v0")
      [] d = "hash_stale" -> With(e, "summary", "edited")
      [] OTHER -> e

ForgedLine(e, d, lines) ==
    CASE d = "blank" -> [tag |-> "blank"]
      [] d = "garbage" -> [tag |-> "garbage"]
      [] d = "scalar" -> [tag |-> "scalar"]
      [] d = "hash_absent" -> stable_json(e)
      [] d = "hash_stale" -> stable_json(With(Defective(e, d, lines), "hash", hash_event(e)))
      [] OTHER -> stable_json(Sealed(Defective(e, d, lines)))

ForgeLine(d) ==
    /\ phase = "build"
    /\ Len(ledger) < MaxLines
    /\ ledger' = Append(ledger,
           ForgedLine(EventNoHash(DefaultArgs, read_last_jsonl_obj(ledgerExists, ledger),
                                  ledgerExists, ledger, now, now, uuidDraws + 1),
                      d, ledger))
    /\ ledgerExists' = TRUE
    /\ uuidDraws' = uuidDraws + 1
    /\ UNCHANGED <<lock, pc, args, last_event, event, raised, now, acquired, report,
                   phase, pristine>>
    /\ UNCHANGED <<repairVars, ctxVars, toolVars>>

NextScan ==
    \/ \E a \in AcceptedArgs : AppendEvent(a)
    \/ \E d \in Defects : ForgeLine(d)
    \/ \E strict \in BOOLEAN : VerifyRun(strict)

\* verify_memory.py run once on an arbitrary file
SpecScan == InitBuild /\ [][NextScan]_vars

-----------------------------------------------------------------------------
(* Properties of verify on an arbitrary file (SpecScan) *)

Verified == phase \in {"verified", "verified_tampered"}

\* the lines verify counts as records
Records == NonBlank(ledger)

\* C7: when verify reports zero errors, every non-blank line is a well-formed
\* object, the seq values are 1..N in file order, the event_ids are non-empty
\* and pairwise distinct, every record after the first has prev_hash equal
\* to the hash of the record before it, and every stored hash is the
\* recomputed hash of the record without its hash field.
C7_VerifySound ==
    (Verified /\ report.errors = <<>>) =>
        /\ ledgerExists
        /\ \A i \in 1..Len(Records) :
              /\ Records[i].tag = "object"
              /\ LET e == Records[i].obj IN
                 /\ "seq" \in DOMAIN e /\ e.seq = i
                 /\ "event_id" \in DOMAIN e /\ Strip(e.event_id) # ""
                 /\ \A j \in 1..Len(Records) :
                       j # i => Records[j].obj.event_id # e.event_id
                 /\ "hash" \in DOMAIN e /\ e.hash # NoHash
                 /\ e.hash = hash_event(Without(e, "hash"))
                 /\ i > 1 => PrevHashOf(e) = Records[i - 1].obj.hash

\* verify passed a file of at least two records that holds a forged line
C7_Witness ==
    /\ Verified
    /\ report.errors = <<>>
    /\ Len(Records) >= 2
    /\ \E i \in 1..Len(Records) : Records[i].obj.schema # SchemaTag

\* the findings of the report about line n
ErrorsAt(n) == SelectSeq(report.errors, LAMBDA f : f.line = n)

Reported(n, what) == \E k \in 1..Len(report.errors) : report.errors[k] = Finding(n, what)

\* C9: every line that is not valid JSON or not an object has exactly one
\* error of its own, every non-blank line is counted, and every record is
\* checked whatever came before it: its invalid seq, missing event_id,
\* invalid timestamp, missing hash and hash mismatch are each reported.
C9_BestEffort ==
    (Verified /\ ledgerExists) =>
        /\ report.events_checked = Len(Records)
        /\ \A n \in 1..Len(ledger) :
              /\ ledger[n].tag = "garbage" => ErrorsAt(n) = <<Finding(n, "invalid JSON")>>
              /\ ledger[n].tag = "scalar" => ErrorsAt(n) = <<Finding(n, "not an object")>>
              /\ ledger[n].tag = "blank" => ErrorsAt(n) = <<>>
              /\ ledger[n].tag = "object" =>
                    LET e == ledger[n].obj IN
                    /\ ("seq" \notin DOMAIN e \/ e.seq <= 0) <=> Reported(n, "invalid seq")
                    /\ ("event_id" \notin DOMAIN e \/ Strip(e.event_id) = "")
                          <=> Reported(n, "missing/invalid event_id")
                    /\ ("timestamp" \notin DOMAIN e \/ ~parse_iso8601(e.timestamp))
                          <=> Reported(n, "invalid timestamp")
                    /\ ~HasHash(e) <=> Reported(n, "missing hash")
                    /\ (HasHash(e) /\ e.hash # hash_event(Without(e, "hash")))
                          <=> Reported(n, "hash mismatch")

\* a line that is not JSON is followed by a record that has a defect of its own,
\* and both are in the report
C9_Witness ==
    /\ Verified
    /\ \E n \in 1..Len(ledger) : \E m \in 1..Len(ledger) :
          /\ n < m
          /\ ledger[n].tag = "garbage"
          /\ ledger[m].tag = "object"
          /\ ~HasHash(ledger[m].obj)
          /\ Reported(n, "invalid JSON")
          /\ Reported(m, "missing hash")

\* C10: verify exits non-zero whenever it found an error (a missing ledger
\* file is one); with no error it exits non-zero exactly when there is a
\* warning and strict mode was requested, and zero otherwise.
C10_ExitStatus ==
    Verified =>
        /\ ~ledgerExists => report.errors # <<>>
        /\ report.errors # <<>> => report.exit # 0
        /\ report.errors = <<>> =>
              (report.exit # 0 <=> (report.warnings # <<>> /\ report.strict))

\* a run without --strict that found warnings and no error, and exited 0
C10_Witness ==
    /\ Verified
    /\ report.errors = <<>>
    /\ report.warnings # <<>>
    /\ ~report.strict
    /\ report.exit = 0

-----------------------------------------------------------------------------
(* Tampering with a ledger that append_event wrote (SpecTamper) *)

StringKeys ==
    {"schema", "event_id", "timestamp", "repo_root", "repo_id", "kind", "status",
     "summary", "source", "task"}

ListKeys == {"paths", "symbols", "commands", "refs"}

StoredHashes(lines) ==
    {lines[i].obj.hash : i \in {n \in 1..Len(lines) : lines[n].tag = "object"}}

\* the values an editor may put in field k
Alternatives(k, lines) ==
    CASE k = "seq" -> 0..(MaxLines + 1)
      [] k = "status" -> StatusChoices \cup {"tampered"}
      [] k = "timestamp" -> {utc_now_iso(t) : t \in 0..MaxClock} \cup {"tampered"}
      [] k \in StringKeys -> {"tampered"}
      [] k \in ListKeys -> {<<"a.py">>, <<"tampered">>}
      [] k = "payload" -> {[note |-> "tampered"]}
      [] OTHER -> StoredHashes(lines) \cup {BogusHash, NoHash}

\* an editor changes the value of one field of one record and leaves the hashes
EditRecord(i, k, v) ==
    /\ phase = "build"
    /\ i \in 1..Len(ledger)
    /\ k \in DOMAIN ledger[i].obj
    /\ v # ledger[i].obj[k]
    /\ ledger' = [ledger EXCEPT ![i] = stable_json(With(ledger[i].obj, k, v))]
    /\ pristine' = ledger
    /\ phase' = "tampered"
    /\ UNCHANGED <<ledgerExists, lock, pc, args, last_event, event, raised, now,
                   uuidDraws, acquired, report>>
    /\ UNCHANGED <<repairVars, ctxVars, toolVars>>

\* an editor deletes one line
DeleteRecord(i) ==
    /\ phase = "build"
    /\ i \in 1..Len(ledger)
    /\ ledger' = SubSeq(ledger, 1, i - 1) \o SubSeq(ledger, i + 1, Len(ledger))
    /\ pristine' = ledger
    /\ phase' = "tampered"
    /\ UNCHANGED <<ledgerExists, lock, pc, args, last_event, event, raised, now,
                   uuidDraws, acquired, report>>
    /\ UNCHANGED <<repairVars, ctxVars, toolVars>>

\* an editor exchanges two lines
SwapRecords(i, j) ==
    /\ phase = "build"
    /\ i \in 1..Len(ledger)
    /\ j \in 1..Len(ledger)
    /\ i < j
    /\ ledger' = [ledger EXCEPT ![i] = ledger[j], ![j] = ledger[i]]
    /\ pristine' = ledger
    /\ phase' = "tampered"
    /\ UNCHANGED <<ledgerExists, lock, pc, args, last_event, event, raised, now,
                   uuidDraws, acquired, report>>
    /\ UNCHANGED <<repairVars, ctxVars, toolVars>>

AllKeys == StringKeys \cup ListKeys \cup {"seq", "payload", "prev_hash", "hash"}

NextTamper ==
    \/ \E a \in AcceptedArgs : AppendEvent(a)
    \/ \E i \in 1..MaxLines : \E k \in AllKeys :
          \E v \in Alternatives(k, ledger) : EditRecord(i, k, v)
    \/ \E i \in 1..MaxLines : DeleteRecord(i)
    \/ \E i \in 1..MaxLines : \E j \in 1..MaxLines : SwapRecords(i, j)
    \/ \E strict \in BOOLEAN : VerifyRun(strict)

\* appends, then at most one act of tampering, then one run of verify
SpecTamper == InitBuild /\ [][NextTamper]_vars

\* C6: a ledger file that only append operations wrote, whatever the
\* accepted field values and however many, is reported by verify with zero
\* errors.
C6_AppendedLedgerVerifies ==
    (phase = "verified" /\ ledgerExists) => report.errors = <<>>

\* verify ran on a ledger of MaxLines appended records
C6_Witness ==
    /\ phase = "verified"
    /\ Len(ledger) = MaxLines
    /\ report.events_checked = MaxLines
    /\ report.exit = 0

\* the last record was deleted
TailDeleted ==
    /\ pristine # <<>>
    /\ ledger = SubSeq(pristine, 1, Len(pristine) - 1)

\* C8 as stated: after a field of one record is changed without recomputing
\* hashes, a record is deleted, or two records are swapped, verify reports at
\* least one error.
C8_TamperEvidentAnyRecord ==
    phase = "verified_tampered" => report.errors # <<>>

\* C8, amended: after a field of one record is changed without recomputing
\* hashes, a record other than the last is deleted, or two records are
\* swapped, verify reports at least one error; after the last record is
\* deleted it reports none.
C8_TamperEvident ==
    phase = "verified_tampered" => (report.errors = <<>> <=> TailDeleted)

\* verify ran on a ledger in which a field was changed or two records swapped
C8_Witness ==
    /\ phase = "verified_tampered"
    /\ Len(ledger) = Len(pristine)
    /\ ledger # pristine
    /\ Len(ledger) >= 2
    /\ report.errors # <<>>

-----------------------------------------------------------------------------
(* repair_events_chain.py *)

MaxRuns == 2

\* the lines a hand-edited ledger is made of, for the repair scenarios
RepairDefects == {"blank", "garbage", "scalar", "seq_skip", "prev_bogus", "hash_stale"}

\* the capture_event call that fills the most fields
RepairArgs == {a \in AcceptedArgs : a.status = "warning"}

\* what a path holds: nothing, or a file with its lines
FileOf(exists, lines) == IF exists THEN [exists |-> TRUE, lines |-> lines] ELSE NoFile

\* mutant: a line that does not parse is skipped
load_events_lenient(exists, lines) ==
    [ok |-> TRUE,
     events |-> IF ~exists THEN <<>>
                ELSE LET objs == SelectSeq(lines, LAMBDA l : l.tag = "object")
                     IN [i \in 1..Len(objs) |-> objs[i].obj]]

\* load_events: the objects of the non-blank lines, or SystemExit on the first
\* line that is not JSON or not an object
load_events(exists, lines) ==
    IF ~exists THEN [ok |-> TRUE, events |-> <<>>]
    ELSE LET nb == NonBlank(lines) IN
         IF \E i \in 1..Len(nb) : nb[i].tag # "object" THEN [ok |-> FALSE]
         ELSE [ok |-> TRUE, events |-> [i \in 1..Len(nb) |-> nb[i].obj]]

\* mutant: the stale hash stays in the record that is hashed
normalize_one_keep_hash(ev, seq, prev_hash) ==
    LET a == With(ev, "seq", seq)
        b == IF prev_hash # NoHash THEN With(a, "prev_hash", prev_hash)
             ELSE Without(a, "prev_hash")
    IN With(b, "hash", hash_event(b))

\* mutant: seq is left as found
normalize_one_keep_seq(ev, seq, prev_hash) ==
    LET b == IF prev_hash # NoHash THEN With(ev, "prev_hash", prev_hash)
             ELSE Without(ev, "prev_hash")
        c == Without(b, "hash")
    IN With(c, "hash", hash_event(c))

\* the body of the loop of normalize_chain
normalize_one(ev, seq, prev_hash) ==
    LET a == With(ev, "seq", seq)
        b == IF prev_hash # NoHash THEN With(a, "prev_hash", prev_hash)
             ELSE Without(a, "prev_hash")
        c == Without(b, "hash")
    IN With(c, "hash", hash_event(c))

RECURSIVE normalize_prefix(_, _)
\* normalize_chain after n iterations of its loop
normalize_prefix(evs, n) ==
    IF n = 0 THEN <<>>
    ELSE LET out == normalize_prefix(evs, n - 1)
             prev_hash == IF n = 1 THEN NoHash ELSE out[n - 1].hash
         IN Append(out, normalize_one(evs[n], n, prev_hash))

normalize_chain(evs) == normalize_prefix(evs, Len(evs))

\* any(events[i] != repaired[i] for i in range(len(events)))
AnyChanged(evs, rep) == \E i \in 1..Len(evs) : evs[i] # rep[i]

\* datetime.now(timezone.utc).strftime("%Y%m%dT%H%M%SZ")
BackupStamp(t) == "20240501T10000" \o ToString(t) \o "Z"

\* mutant: no copy is taken
copy2_skipped(src, dst, store) == store

\* shutil.copy2(events_path, backup): the backup path holds a copy of the file
copy2(src, dst, store) == With(store, dst, src)

\* mutant: write_events opens the ledger path itself
LedgerWhileWritingInPlace(l, t) == t

\* write_events writes to events.jsonl.tmp: the ledger path is not touched
\* while the temporary file (lines t) is being written
LedgerWhileWriting(l, t) == l

RunEnded == rpc \in {"idle", "aborted", "nothing", "dry-run complete",
                     "already consistent", "repaired", "crashed"}

\* history record of a run that ends in status st
RunEntry(st, dry, ch, l, b, t) ==
    [status |-> st, dry |-> dry, changed |-> ch, lines |-> l, backups |-> b, tmp |-> t]

\* everything the repair actions leave alone
notRepairVars == <<lock, pc, args, last_event, event, raised, now, uuidDraws, acquired,
                   report, pristine, ctxVars, toolVars>>

\* main, lines 83-99: load, normalize, compare; every exit that writes nothing
RepairLoad(dry) ==
    /\ RunEnded
    /\ Len(runLog) < MaxRuns
    /\ phase \in {"build", "repair"}
    /\ phase' = "repair"
    /\ dry_run' = dry
    /\ preRepair' = [file |-> FileOf(ledgerExists, ledger), backups |-> backups,
                     tmp |-> tmp]
    /\ \E loaded \in {load_events(ledgerExists, ledger)} :
          IF ~loaded.ok
          THEN /\ rpc' = "aborted"
               /\ events' = <<>> /\ repaired' = <<>> /\ changed' = FALSE
          ELSE IF loaded.events = <<>>
          THEN /\ rpc' = "nothing"
               /\ events' = <<>> /\ repaired' = <<>> /\ changed' = FALSE
          ELSE \E rep \in {normalize_chain(loaded.events)} :
               \E ch \in {AnyChanged(loaded.events, rep)} :
                  /\ events' = loaded.events
                  /\ repaired' = rep
                  /\ changed' = ch
                  /\ rpc' = IF dry THEN "dry-run complete"
                            ELSE IF ~ch THEN "already consistent"
                            ELSE "to_backup"
    /\ runLog' = IF rpc' = "to_backup" THEN runLog
                 ELSE Append(runLog, RunEntry(rpc', dry, changed', ledger, backups, tmp))
    /\ UNCHANGED <<ledgerExists, ledger, tmp, backups>>
    /\ UNCHANGED notRepairVars

\* main, lines 101-103
RepairBackup ==
    /\ rpc = "to_backup"
    /\ backups' = copy2(FileOf(ledgerExists, ledger), BackupStamp(now), backups)
    /\ rpc' = "to_write"
    /\ UNCHANGED <<ledgerExists, ledger, phase, dry_run, events, repaired, changed, tmp,
                   preRepair, runLog>>
    /\ UNCHANGED notRepairVars

\* write_events: tmp.open("w")
RepairOpenTmp ==
    /\ rpc = "to_write"
    /\ tmp' = FileOf(TRUE, <<>>)
    /\ ledger' = LedgerWhileWriting(ledger, <<>>)
    /\ rpc' = "writing"
    /\ UNCHANGED <<ledgerExists, phase, dry_run, events, repaired, changed, backups,
                   preRepair, runLog>>
    /\ UNCHANGED notRepairVars

\* write_events: one f.write reaches the file
RepairWriteLine ==
    /\ rpc = "writing"
    /\ Len(tmp.lines) < Len(repaired)
    /\ tmp' = FileOf(TRUE, Append(tmp.lines, stable_json(repaired[Len(tmp.lines) + 1])))
    /\ ledger' = LedgerWhileWriting(ledger, tmp'.lines)
    /\ UNCHANGED <<ledgerExists, phase, rpc, dry_run, events, repaired, changed, backups,
                   preRepair, runLog>>
    /\ UNCHANGED notRepairVars

\* write_events: f.flush(), close, tmp.replace(path)
RepairReplace ==
    /\ rpc = "writing"
    /\ Len(tmp.lines) = Len(repaired)
    /\ ledger' = tmp.lines
    /\ tmp' = NoFile
    /\ rpc' = "replaced"
    /\ UNCHANGED <<ledgerExists, phase, dry_run, events, repaired, changed, backups,
                   preRepair, runLog>>
    /\ UNCHANGED notRepairVars

\* main, lines 105-106: the run reports and ends
RepairReport ==
    /\ rpc = "replaced"
    /\ rpc' = "repaired"
    /\ runLog' = Append(runLog, RunEntry("repaired", dry_run, changed, ledger, backups, tmp))
    /\ UNCHANGED <<ledgerExists, ledger, phase, dry_run, events, repaired, changed, tmp,
                   backups, preRepair>>
    /\ UNCHANGED notRepairVars

\* the process is killed between two of its steps
RepairCrash ==
    /\ rpc \in {"to_backup", "to_write", "writing", "replaced"}
    /\ rpc' = "crashed"
    /\ runLog' = Append(runLog, RunEntry("crashed", dry_run, changed, ledger, backups, tmp))
    /\ UNCHANGED <<ledgerExists, ledger, phase, dry_run, events, repaired, changed, tmp,
                   backups, preRepair>>
    /\ UNCHANGED notRepairVars

NextRepair ==
    \/ \E a \in RepairArgs : AppendEvent(a)
    \/ \E d \in RepairDefects : ForgeLine(d)
    \/ \E dry \in BOOLEAN : RepairLoad(dry)
    \/ RepairBackup
    \/ RepairOpenTmp
    \/ RepairWriteLine
    \/ RepairReplace
    \/ RepairReport
    \/ RepairCrash

\* a ledger of appended and hand-edited lines, then repair runs one after another
SpecRepair == InitBuild /\ [][NextRepair]_vars

-----------------------------------------------------------------------------
(* Properties of repair (SpecRepair) *)

LedgerFile == FileOf(ledgerExists, ledger)

\* the records of the file the current run started from
OriginalRecords ==
    IF ~preRepair.file.exists THEN <<>>
    ELSE LET nb == NonBlank(preRepair.file.lines) IN [i \in 1..Len(nb) |-> nb[i].obj]

\* some non-blank line is not JSON or not an object
HasBadLine(file) ==
    file.exists /\ \E i \in 1..Len(file.lines) : file.lines[i].tag \in {"garbage", "scalar"}

ChainKeys == {"seq", "prev_hash", "hash"}

OtherFields(obj) == [k \in DOMAIN obj \ ChainKeys |-> obj[k]]

RepairedLines == [i \in 1..Len(repaired) |-> stable_json(repaired[i])]

\* C11: when every non-blank line of the ledger is an object, the repaired
\* chain has as many records as the ledger, in the same order; record i has
\* seq = i; the first has no prev_hash and every later one has the new hash of
\* the record before it; each hash is the digest of the record without its
\* hash; every other field is as it was.  A run that replaces the ledger
\* writes exactly that chain.
C11_RepairedChain ==
    (rpc # "idle" /\ ~HasBadLine(preRepair.file)) =>
        /\ Len(repaired) = Len(OriginalRecords)
        /\ \A i \in 1..Len(repaired) :
              /\ repaired[i].seq = i
              /\ i = 1 => "prev_hash" \notin DOMAIN repaired[i]
              /\ i > 1 => repaired[i].prev_hash = repaired[i - 1].hash
              /\ repaired[i].hash = hash_event(Without(repaired[i], "hash"))
              /\ OtherFields(repaired[i]) = OtherFields(OriginalRecords[i])
        /\ rpc \in {"replaced", "repaired"} => ledger = RepairedLines

\* a ledger whose first record carried a prev_hash and whose second record
\* had the wrong seq has been repaired
C11_Witness ==
    /\ rpc = "repaired"
    /\ Len(events) >= 2
    /\ "prev_hash" \in DOMAIN events[1]
    /\ events[2].seq # 2
    /\ "hash" \in DOMAIN events[2]

\* C12: a run that directly follows a run that repaired the ledger (or found
\* it consistent) reports changed = false, writes no backup and leaves the
\* ledger file as the first run left it.
C12_RepairIdempotent ==
    \A k \in 2..Len(runLog) :
        runLog[k - 1].status \in {"repaired", "already consistent"} =>
            /\ runLog[k].status \in {"already consistent", "dry-run complete"}
            /\ runLog[k].changed = FALSE
            /\ runLog[k].backups = runLog[k - 1].backups
            /\ runLog[k].lines = runLog[k - 1].lines

\* a run that rewrote the ledger was followed by a run that was not a dry run
C12_Witness ==
    /\ Len(runLog) >= 2
    /\ runLog[1].status = "repaired"
    /\ runLog[2].status = "already consistent"
    /\ Len(runLog[2].lines) >= 2

\* C13: on a ledger with a non-blank line that is not JSON or not an object,
\* the run aborts: the ledger file is as it was, no backup was added and there
\* is no temporary file.
C13_AbortsOnMalformed ==
    (rpc # "idle" /\ HasBadLine(preRepair.file)) =>
        /\ rpc = "aborted"
        /\ LedgerFile = preRepair.file
        /\ backups = preRepair.backups
        /\ tmp = NoFile

\* the malformed line comes after a record that needed repair
C13_Witness ==
    /\ rpc = "aborted"
    /\ Len(ledger) >= 2
    /\ ledger[1].tag = "object"
    /\ ledger[1].obj.seq # 1
    /\ ledger[2].tag \in {"garbage", "scalar"}

\* C14: in every state in which the ledger file no longer holds what the run
\* started from, some backup file holds exactly that content.
C14_BackupBeforeReplace ==
    (rpc # "idle" /\ LedgerFile # preRepair.file) =>
        \E ts \in DOMAIN backups : backups[ts] = preRepair.file

\* the ledger was replaced and the backup of this second holds the original
C14_Witness ==
    /\ rpc = "repaired"
    /\ ~dry_run
    /\ ledger # preRepair.file.lines
    /\ BackupStamp(now) \in DOMAIN backups
    /\ backups[BackupStamp(now)] = preRepair.file

\* C15: wherever the repair process stops, the ledger path holds either the
\* whole original content or the whole repaired content.
C15_NeverPartial ==
    rpc # "idle" =>
        \/ LedgerFile = preRepair.file
        \/ LedgerFile = FileOf(TRUE, RepairedLines)

\* the process was killed with some but not all lines in the temporary file
C15_Witness ==
    /\ rpc = "crashed"
    /\ tmp.exists
    /\ Len(tmp.lines) >= 1
    /\ Len(tmp.lines) < Len(repaired)
    /\ LedgerFile = preRepair.file

-----------------------------------------------------------------------------
(* context_ops.py *)

MaxCommits == 2
MaxCtxEvents == 1

\* a branch with no commit: its head is None
NoHead == ""

NoMeta == [k \in {} |-> ""]

\* the values given to --name, --branch, --source and --target, to --from,
\* to --message and to --meta-json
BranchNames == {"", "main", "b1", "b2"}
FromRefs == {"", "main", "ctx-literal"}
Messages == {""}
Metas == {NoMeta}
RecordPolicies == {"off", "on-change", "always"}

\* the refs dict _read_refs builds when refs.json is missing or empty
DefaultRefs ==
    [exists |-> TRUE, active_branch |-> "main", branches |-> [b \in {"main"} |-> NoHead]]

\* _load_json: the dict in the file; {} when the file is missing or is not
\* the text of a JSON object
load_json(file) ==
    IF file.exists /\ "active_branch" \in DOMAIN file THEN file ELSE NoFile

\* _read_refs: the refs dict; when _load_json gives {} the default is
\* written to the file
read_refs(file) == IF load_json(file).exists THEN file ELSE DefaultRefs

\* branches.get(name)
HeadOf(r, name) == IF name \in DOMAIN r.branches THEN r.branches[name] ELSE NoHead

\* mutant: the start point is always the active branch
resolve_from_ref_active(r, raw_from) == HeadOf(r, r.active_branch)

\* _resolve_from_ref
resolve_from_ref(r, raw_from) ==
    LET candidate == Strip(raw_from) IN
    IF candidate = "" THEN HeadOf(r, r.active_branch)
    ELSE IF candidate \in DOMAIN r.branches THEN r.branches[candidate]
    ELSE candidate

\* stable_json of a meta object: its keys in sorted order
MetaText(meta) ==
    LET item(k) == IF k \in DOMAIN meta THEN k \o ":" \o meta[k] \o ";" ELSE ""
    IN item("note") \o item("source_branch") \o item("target_branch")

ParentsText(parents) ==
    IF Len(parents) = 0 THEN ""
    ELSE IF Len(parents) = 1 THEN parents[1]
    ELSE parents[1] \o "," \o parents[2]

\* mutant: the digest covers the snapshot and the message only
CommitDigestContentOnly(payload) == "sha256(" \o payload.message \o ")"

\* _sha256_text(stable_json(payload))[:12]: the digest of the whole payload
\* (the tracked files do not change in the model, so file_snapshots is the
\* same in every commit and is left out of the text)
CommitDigest(payload) ==
    "sha256(" \o payload.branch \o "|" \o payload.message \o "|" \o MetaText(payload.meta)
              \o "|" \o ParentsText(payload.parents) \o "|" \o payload.timestamp \o ")"

\* _create_commit: the payload saved as <commit_id>.json
create_commit(branch, parents, message, meta, t) ==
    LET payload == [timestamp |-> utc_now_iso(t), branch |-> branch, parents |-> parents,
                    message |-> IF Strip(message) = "" THEN "context commit"
                                ELSE Strip(message),
                    meta |-> meta]
    IN With(payload, "commit_id",
            "ctx-" \o EventIdStamp(t) \o "-" \o CommitDigest(payload))

\* _save_json(commit_path, payload)
save_commit(store, payload) == With(store, payload.commit_id, payload)

\* mutant: the ref set is rebuilt with the one branch
AdvanceHeadOnly(branches, name, id) == [b \in {name} |-> id]

\* mutant: branches that shared the old head follow the new one
AdvanceHeadAliased(branches, name, id) ==
    [b \in DOMAIN branches |-> IF branches[b] = branches[name] THEN id ELSE branches[b]]

\* branches[branch_name] = commit_id
AdvanceHead(branches, name, id) == With(branches, name, id)

\* mutant: the commit records no parent
CommitParentsNone(parent) == <<>>

\* parents = [parent] if parent else []
CommitParents(parent) == IF parent # NoHead THEN <<parent>> ELSE <<>>

\* mutant: a source branch without a head is not refused
SourceHasHeadAlways(source_head) == TRUE

\* not (not source_head)
SourceHasHead(source_head) == source_head # NoHead

\* mutant: equal heads are not noticed
HeadsEqualNever(source_head, target_head) == FALSE

\* source_head == target_head
HeadsEqual(source_head, target_head) == source_head = target_head

\* an invocation that exits with status 2 before it writes anything
Rejected(r) ==
    [exit |-> 2, refs |-> r, wrote_refs |-> FALSE, commit |-> NoneObj, reaches_record |-> FALSE,
     event_needed |-> FALSE, summary |-> "", payload |-> EmptyPayload]

\* main, action init
init_op(r) ==
    [Rejected(r) EXCEPT !.exit = 0, !.wrote_refs = TRUE]

\* main, actions status and list
status_op(r) == [Rejected(r) EXCEPT !.exit = 0]

\* main, action branch
branch_op(r, name, from_ref) ==
    LET branch_name == Strip(name) IN
    IF branch_name = "" THEN Rejected(r)
    ELSE IF branch_name \in DOMAIN r.branches THEN Rejected(r)
    ELSE LET from_head == resolve_from_ref(r, from_ref) IN
         [exit |-> 0,
          refs |-> [r EXCEPT !.branches = With(@, branch_name, from_head)],
          wrote_refs |-> TRUE, commit |-> NoneObj, reaches_record |-> TRUE,
          event_needed |-> TRUE,
          summary |-> "context branch created " \o branch_name,
          payload |-> [branch |-> branch_name,
                       from |-> IF Strip(from_ref) # "" THEN Strip(from_ref)
                                ELSE r.active_branch,
                       head |-> from_head]]

\* main, action switch
switch_op(r, name) ==
    LET branch_name == Strip(name) IN
    IF branch_name = "" THEN Rejected(r)
    ELSE IF branch_name \notin DOMAIN r.branches THEN Rejected(r)
    ELSE [exit |-> 0,
          refs |-> [r EXCEPT !.active_branch = branch_name],
          wrote_refs |-> TRUE, commit |-> NoneObj, reaches_record |-> TRUE,
          event_needed |-> branch_name # r.active_branch,
          summary |-> "context branch switched to " \o branch_name,
          payload |-> [from |-> r.active_branch, to |-> branch_name]]

\* main, action commit
commit_op(r, branch, message, meta, t) ==
    LET branch_name == IF Strip(branch) # "" THEN Strip(branch) ELSE r.active_branch IN
    IF branch_name \notin DOMAIN r.branches THEN Rejected(r)
    ELSE LET parent == r.branches[branch_name]
             parents == CommitParents(parent)
             msg == IF Strip(message) # "" THEN Strip(message)
                    ELSE "context commit on " \o branch_name
             c == create_commit(branch_name, parents, msg, meta, t)
         IN [exit |-> 0,
             refs |-> [r EXCEPT !.branches = AdvanceHead(@, branch_name, c.commit_id),
                                !.active_branch = branch_name],
             wrote_refs |-> TRUE, commit |-> c, reaches_record |-> TRUE,
             event_needed |-> TRUE,
             summary |-> "context commit " \o c.commit_id \o " on " \o branch_name,
             payload |-> [branch |-> branch_name, commit_id |-> c.commit_id,
                          parents |-> parents, commit_path |-> c.commit_id \o ".json"]]

\* {"source_branch": source, "target_branch": target, **meta}
MergeMeta(source, target, meta) ==
    LET base == [source_branch |-> source, target_branch |-> target]
    IN [k \in DOMAIN base \cup DOMAIN meta |-> IF k \in DOMAIN meta THEN meta[k] ELSE base[k]]

\* main, action merge
merge_op(r, src, tgt, message, meta, t) ==
    LET source == Strip(src)
        target == IF Strip(tgt) # "" THEN Strip(tgt) ELSE r.active_branch
    IN
    IF source = "" THEN Rejected(r)
    ELSE IF source \notin DOMAIN r.branches THEN Rejected(r)
    ELSE IF target \notin DOMAIN r.branches THEN Rejected(r)
    ELSE LET source_head == r.branches[source]
             target_head == r.branches[target]
         IN
         IF ~SourceHasHead(source_head) THEN Rejected(r)
         ELSE IF HeadsEqual(source_head, target_head) THEN [Rejected(r) EXCEPT !.exit = 0]
         ELSE LET parents == SelectSeq(<<target_head, source_head>>, LAMBDA h : h # NoHead)
                  msg == IF Strip(message) # "" THEN Strip(message)
                         ELSE "merge " \o source \o " into " \o target
                  c == create_commit(target, parents, msg,
                                     MergeMeta(source, target, meta), t)
              IN [exit |-> 0,
                  refs |-> [r EXCEPT !.branches = AdvanceHead(@, target, c.commit_id),
                                     !.active_branch = target],
                  wrote_refs |-> TRUE, commit |-> c, reaches_record |-> TRUE,
                  event_needed |-> TRUE,
                  summary |-> "context merge " \o source \o " -> " \o target
                              \o " (" \o c.commit_id \o ")",
                  payload |-> [source |-> source, target |-> target,
                               source_head |-> source_head,
                               target_prev_head |-> target_head,
                               merge_commit |-> c.commit_id,
                               commit_path |-> c.commit_id \o ".json"]]

\* mutant: on-change records whether or not an event is needed
ShouldRecordAnyChange(o, policy) ==
    /\ o.reaches_record
    /\ policy # "off"
    /\ o.summary # ""

\* should_record and event_summary, for an invocation that reaches line 395
ShouldRecord(o, policy) ==
    /\ o.reaches_record
    /\ policy = "always" \/ (policy = "on-change" /\ o.event_needed)
    /\ o.summary # ""

\* the keyword arguments of the append_event call of context_ops
CtxEventArgs(o) ==
    [DefaultArgs EXCEPT !.kind = "context-op", !.status = "success",
                        !.summary = o.summary, !.source = "context-ops",
                        !.task = "continuity-optimization", !.payload = o.payload]

\* one invocation of context_ops.py with --action action, whose outcome is o
Invoke(action, o) ==
    /\ phase = "build"
    /\ IsDict(o.commit) => Cardinality(DOMAIN commits) < MaxCommits
    /\ ShouldRecord(o, record_event) => Len(ledger) < MaxCtxEvents
    /\ refsFile' = IF o.wrote_refs THEN o.refs ELSE read_refs(refsFile)
    /\ commits' = IF IsDict(o.commit) THEN save_commit(commits, o.commit) ELSE commits
    /\ IF ShouldRecord(o, record_event)
       THEN /\ ledger' = append_jsonl(ledger, AppendedEvent(CtxEventArgs(o)))
            /\ ledgerExists' = TRUE
            /\ uuidDraws' = uuidDraws + 1
       ELSE UNCHANGED <<ledger, ledgerExists, uuidDraws>>
    /\ lastOp' = [action |-> action, exit |-> o.exit]
    /\ UNCHANGED <<lock, pc, args, last_event, event, raised, now, acquired, report,
                   phase, pristine, repairVars, record_event, toolVars>>

CtxInitOp == \E o \in {init_op(read_refs(refsFile))} : Invoke("init", o)

CtxStatus == \E o \in {status_op(read_refs(refsFile))} : Invoke("status", o)

CtxBranch(name, from_ref) ==
    \E o \in {branch_op(read_refs(refsFile), name, from_ref)} : Invoke("branch", o)

CtxSwitch(name) ==
    \E o \in {switch_op(read_refs(refsFile), name)} : Invoke("switch", o)

CtxCommit(branch, message, meta) ==
    \E o \in {commit_op(read_refs(refsFile), branch, message, meta, now)} :
       Invoke("commit", o)

CtxMerge(source, target, message, meta) ==
    \E o \in {merge_op(read_refs(refsFile), source, target, message, meta, now)} :
       Invoke("merge", o)

NextCtx ==
    \/ CtxInitOp
    \/ CtxStatus
    \/ \E name \in BranchNames : \E from_ref \in FromRefs : CtxBranch(name, from_ref)
    \/ \E name \in BranchNames : CtxSwitch(name)
    \/ \E branch \in BranchNames : \E message \in Messages : \E meta \in Metas :
          CtxCommit(branch, message, meta)
    \/ \E source \in BranchNames : \E target \in BranchNames :
          \E message \in Messages : \E meta \in Metas :
             CtxMerge(source, target, message, meta)

\* a session that has not invoked context_ops yet, with its --record-event
InitCtx ==
    /\ ledgerExists = FALSE
    /\ ledger = <<>>
    /\ lock = NoProc
    /\ pc = [p \in Procs |-> "idle"]
    /\ args = [p \in Procs |-> NoArgs]
    /\ last_event = [p \in Procs |-> NoneObj]
    /\ event = [p \in Procs |-> NoneObj]
    /\ raised = [p \in Procs |-> FALSE]
    /\ now = 0
    /\ uuidDraws = 0
    /\ acquired = <<>>
    /\ report = NoReport
    /\ phase = "build"
    /\ pristine = <<>>
    /\ RepairInit
    /\ ToolInit
    /\ refsFile = NoFile
    /\ commits = <<>>
    /\ lastOp = NoOp
    /\ record_event \in RecordPolicies

\* context_ops.py invoked again and again by one session, within one second
SpecCtx == InitCtx /\ [][NextCtx]_vars

-----------------------------------------------------------------------------
(* Properties of the branch graph (SpecCtx) *)

\* the ref set an invocation finds, and the one it leaves
RefsBefore == read_refs(refsFile)
RefsAfter == read_refs(refsFile')

\* the branch an empty --branch or --target stands for
TargetOf(given) == IF given # "" THEN given ELSE RefsBefore.active_branch

HeadChanged(b) == RefsAfter.branches[b] # RefsBefore.branches[b]

\* C16: branch with a name that exists fails and leaves the ref set as it
\* was; with a new name it adds that name, with the head of the branch named
\* by --from, or the literal --from, or the active branch's head when --from
\* is empty, and changes no other head and not the active branch.
C16_Branch ==
    [][lastOp'.action = "branch" =>
       \A name \in BranchNames \ {""} : \A from_ref \in FromRefs :
             CtxBranch(name, from_ref) =>
                IF name \in DOMAIN RefsBefore.branches
                THEN lastOp'.exit = 2 /\ RefsAfter = RefsBefore
                ELSE /\ lastOp'.exit = 0
                     /\ DOMAIN RefsAfter.branches = DOMAIN RefsBefore.branches \cup {name}
                     /\ RefsAfter.branches[name] =
                           IF from_ref = ""
                           THEN RefsBefore.branches[RefsBefore.active_branch]
                           ELSE IF from_ref \in DOMAIN RefsBefore.branches
                           THEN RefsBefore.branches[from_ref]
                           ELSE from_ref
                     /\ \A b \in DOMAIN RefsBefore.branches : ~HeadChanged(b)
                     /\ RefsAfter.active_branch = RefsBefore.active_branch]_vars

\* b1 was just created from main, which had a head
C16_Witness ==
    /\ lastOp = [action |-> "branch", exit |-> 0]
    /\ "b1" \in DOMAIN refsFile.branches
    /\ refsFile.branches["b1"] \in DOMAIN commits
    /\ refsFile.branches["b1"] = refsFile.branches["main"]

\* C17: the head of a branch changes only in a step that commits on that
\* branch or merges into it, and a step that creates a commit changes the
\* head of exactly one branch.
C17_OneHeadMoves ==
    [][/\ \A b \in DOMAIN RefsBefore.branches :
             HeadChanged(b) =>
                \/ \E branch \in BranchNames : \E message \in Messages : \E meta \in Metas :
                      CtxCommit(branch, message, meta) /\ TargetOf(branch) = b
                \/ \E source \in BranchNames : \E target \in BranchNames :
                      \E message \in Messages : \E meta \in Metas :
                         CtxMerge(source, target, message, meta) /\ TargetOf(target) = b
       /\ commits' # commits =>
             Cardinality({b \in DOMAIN RefsBefore.branches : HeadChanged(b)}) = 1]_vars

\* b1 was created from main before main had a head; main has been committed
\* on since, and b1 still has no head
C17_Witness ==
    /\ lastOp = [action |-> "commit", exit |-> 0]
    /\ "b1" \in DOMAIN refsFile.branches
    /\ refsFile.branches["b1"] = NoHead
    /\ refsFile.branches["main"] \in DOMAIN commits

\* C18: commit on a known branch stores one new commit whose parents are
\* exactly the branch's head (none when it has no head), moves the branch's
\* head to it and makes the branch active; commit on an unknown branch fails,
\* stores nothing and leaves the ref set as it was.
C18_Commit ==
    [][lastOp'.action = "commit" =>
       \A branch \in BranchNames : \A message \in Messages : \A meta \in Metas :
             CtxCommit(branch, message, meta) =>
                LET t == TargetOf(branch) IN
                IF t \in DOMAIN RefsBefore.branches
                THEN /\ lastOp'.exit = 0
                     /\ \E id \in DOMAIN commits' \ DOMAIN commits :
                           /\ DOMAIN commits' = DOMAIN commits \cup {id}
                           /\ commits'[id].parents =
                                 IF RefsBefore.branches[t] = NoHead THEN <<>>
                                 ELSE <<RefsBefore.branches[t]>>
                           /\ RefsAfter.branches[t] = id
                           /\ RefsAfter.active_branch = t
                     /\ \A id \in DOMAIN commits : commits'[id] = commits[id]
                ELSE /\ lastOp'.exit = 2
                     /\ commits' = commits
                     /\ RefsAfter = RefsBefore]_vars

\* the active branch has just received a commit whose parent is its old head
C18_Witness ==
    /\ lastOp = [action |-> "commit", exit |-> 0]
    /\ \E id \in DOMAIN commits :
          /\ refsFile.branches[refsFile.active_branch] = id
          /\ Len(commits[id].parents) = 1
          /\ commits[id].parents[1] \in DOMAIN commits

\* C19: the id of every commit a commit or merge invocation creates is the
\* id of no stored commit, and no stored commit file changes or disappears.
C19_UniqueIds ==
    [][/\ \A id \in DOMAIN commits : id \in DOMAIN commits' /\ commits'[id] = commits[id]
       /\ lastOp' = [action |-> "commit", exit |-> 0] =>
             \A branch \in BranchNames : \A message \in Messages : \A meta \in Metas :
                CtxCommit(branch, message, meta) =>
                   LET o == commit_op(RefsBefore, branch, message, meta, now) IN
                   IsDict(o.commit) => o.commit.commit_id \notin DOMAIN commits
       /\ lastOp' = [action |-> "merge", exit |-> 0] =>
             \A source \in BranchNames : \A target \in BranchNames :
                \A message \in Messages : \A meta \in Metas :
                   CtxMerge(source, target, message, meta) =>
                      LET o == merge_op(RefsBefore, source, target, message, meta, now) IN
                      IsDict(o.commit) => o.commit.commit_id \notin DOMAIN commits]_vars

\* two commits on the same branch with the same message, metadata and second
C19_Witness ==
    \E a \in DOMAIN commits : \E b \in DOMAIN commits :
        /\ a # b
        /\ commits[a].branch = commits[b].branch
        /\ commits[a].message = commits[b].message
        /\ commits[a].meta = commits[b].meta
        /\ commits[a].timestamp = commits[b].timestamp

\* C20: merge fails when the source is not a branch, when the target is not a
\* branch, or when the source has no head (a merge that does not fail has a
\* known source with a head and a known target); a merge that fails stores no
\* commit, leaves the ref set as it was and appends no event.
C20_MergeRejects ==
    [][/\ lastOp' = [action |-> "merge", exit |-> 2] =>
             /\ commits' = commits
             /\ RefsAfter = RefsBefore
             /\ ledger' = ledger
       /\ lastOp' = [action |-> "merge", exit |-> 0] =>
             \A source \in BranchNames : \A target \in BranchNames :
                \A message \in Messages : \A meta \in Metas :
                   CtxMerge(source, target, message, meta) =>
                      /\ source \in DOMAIN RefsBefore.branches
                      /\ TargetOf(target) \in DOMAIN RefsBefore.branches
                      /\ RefsBefore.branches[source] # NoHead]_vars

\* a merge was refused under the policy always although both branches exist:
\* b1 has no head; the only event is the one of the creation of b1
C20_Witness ==
    /\ lastOp = [action |-> "merge", exit |-> 2]
    /\ record_event = "always"
    /\ "b1" \in DOMAIN refsFile.branches
    /\ refsFile.branches["b1"] = NoHead
    /\ Len(ledger) = 1

\* the branches a merge invocation names, and whether their heads are equal
MergeOfEqualHeads(source, target) ==
    /\ source \in DOMAIN RefsBefore.branches
    /\ TargetOf(target) \in DOMAIN RefsBefore.branches
    /\ RefsBefore.branches[source] = RefsBefore.branches[TargetOf(target)]

NothingWritten ==
    /\ RefsAfter = RefsBefore
    /\ commits' = commits
    /\ ledger' = ledger

\* C21 as stated: merging a branch into itself, or into a branch whose head
\* is the source's head, writes nothing (ref set, commit store, ledger) and
\* reports success.
C21_MergeNoOpAnyHead ==
    [][lastOp'.action = "merge" =>
       \A source \in BranchNames : \A target \in BranchNames :
          \A message \in Messages : \A meta \in Metas :
             (CtxMerge(source, target, message, meta) /\ MergeOfEqualHeads(source, target))
                => (lastOp'.exit = 0 /\ NothingWritten)]_vars

\* C21, amended: merging a branch that has a head into itself, or into a
\* branch whose head is the source's head, writes nothing (ref set, commit
\* store, ledger) and reports success; when the source has no head the merge
\* writes nothing either, and fails.
C21_MergeNoOp ==
    [][lastOp'.action = "merge" =>
       \A source \in BranchNames : \A target \in BranchNames :
          \A message \in Messages : \A meta \in Metas :
             (CtxMerge(source, target, message, meta) /\ MergeOfEqualHeads(source, target))
                => /\ NothingWritten
                   /\ lastOp'.exit = IF RefsBefore.branches[source] # NoHead THEN 0 ELSE 2]_vars

\* under the policy always, a merge of main into itself has succeeded; no
\* merge commit has ever been stored and the only event is the one of the
\* commit on main
C21_Witness ==
    /\ lastOp = [action |-> "merge", exit |-> 0]
    /\ record_event = "always"
    /\ \A id \in DOMAIN commits : "source_branch" \notin DOMAIN commits[id].meta
    /\ refsFile.branches["main"] \in DOMAIN commits
    /\ Len(ledger) = 1

\* a --meta-json that has a key of its own named source_branch
OverridingMeta == [source_branch |-> "b2"]

MergeMetas == Metas \cup {OverridingMeta}

\* the invocations of NextCtx, where merge is also given OverridingMeta
NextCtxMeta ==
    \/ CtxInitOp
    \/ CtxStatus
    \/ \E name \in BranchNames : \E from_ref \in FromRefs : CtxBranch(name, from_ref)
    \/ \E name \in BranchNames : CtxSwitch(name)
    \/ \E branch \in BranchNames : \E message \in Messages : \E meta \in Metas :
          CtxCommit(branch, message, meta)
    \/ \E source \in BranchNames : \E target \in BranchNames :
          \E message \in Messages : \E meta \in MergeMetas :
             CtxMerge(source, target, message, meta)

SpecCtxMeta == InitCtx /\ [][NextCtxMeta]_vars

\* C22 as stated: every merge that is not a no-op stores a commit on the
\* target branch whose parents are the target's head and the source's head,
\* both present and in that order, and whose metadata gives the names of the
\* source and of the target branch.
C22_MergeCommit ==
    [][(lastOp' = [action |-> "merge", exit |-> 0] /\ commits' # commits) =>
       \A source \in BranchNames : \A target \in BranchNames :
          \A message \in Messages : \A meta \in MergeMetas :
             CtxMerge(source, target, message, meta) =>
                LET t == TargetOf(target) IN
                \E id \in DOMAIN commits' \ DOMAIN commits :
                   /\ RefsAfter.branches[t] = id
                   /\ commits'[id].branch = t
                   /\ RefsBefore.branches[t] # NoHead
                   /\ RefsBefore.branches[source] # NoHead
                   /\ commits'[id].parents =
                         <<RefsBefore.branches[t], RefsBefore.branches[source]>>
                   /\ commits'[id].meta.source_branch = source
                   /\ commits'[id].meta.target_branch = t]_vars

\* a step of a branch, switch, commit or merge invocation that succeeds
SuccessfulCtxStep ==
    /\ lastOp'.action \in {"branch", "switch", "commit", "merge"}
    /\ lastOp'.exit = 0

\* the step changed the ref set or the commit store
CtxStateChanged == RefsAfter # RefsBefore \/ commits' # commits

\* the step appended exactly one line to the ledger
OneEventAppended ==
    /\ Len(ledger') = Len(ledger) + 1
    /\ SubSeq(ledger', 1, Len(ledger)) = ledger

\* what the policy promises for a step
PolicyKept ==
    CASE record_event = "off" -> ledger' = ledger
      [] record_event = "always" -> OneEventAppended
      [] record_event = "on-change" ->
            IF CtxStateChanged THEN OneEventAppended ELSE ledger' = ledger

C25_BranchesKept ==
    [][DOMAIN RefsBefore.branches \subseteq DOMAIN RefsAfter.branches]_vars

\* a commit on an unknown branch has just failed, in a ref set that holds
\* b1 beside main, and main has a head
C25_Witness ==
    /\ lastOp = [action |-> "commit", exit |-> 2]
    /\ "b1" \in DOMAIN refsFile.branches
    /\ refsFile.branches["main"] \in DOMAIN commits

-----------------------------------------------------------------------------
(* A crash during the write of refs.json (SpecCtxCrash) *)

\* refs.json after path.write_text was interrupted: truncated, or holding a
\* prefix of the new text; json.loads fails on either
TornRefs == [exists |-> TRUE, torn |-> TRUE]

\* the outcomes of all the invocations that reach _write_refs
WritingOutcomes ==
    LET r == read_refs(refsFile) IN
    {o \in {init_op(r)}
           \cup {branch_op(r, name, from_ref) : name \in BranchNames, from_ref \in FromRefs}
           \cup {switch_op(r, name) : name \in BranchNames}
           \cup {commit_op(r, branch, message, meta, now) :
                    branch \in BranchNames, message \in Messages, meta \in Metas}
           \cup {merge_op(r, source, target, message, meta, now) :
                    source \in BranchNames, target \in BranchNames,
                    message \in Messages, meta \in Metas} :
       o.wrote_refs}

\* an invocation is killed in _write_refs: its commit file, if any, is
\* written; refs.json is as _read_refs left it, torn, or complete
CtxCrash ==
    \E o \in WritingOutcomes :
       /\ phase = "build"
       /\ IsDict(o.commit) => Cardinality(DOMAIN commits) < MaxCommits
       /\ refsFile' \in {read_refs(refsFile), TornRefs, o.refs}
       /\ commits' = IF IsDict(o.commit) THEN save_commit(commits, o.commit) ELSE commits
       /\ lastOp' = [action |-> "crash"]
       /\ UNCHANGED <<ledger, ledgerExists, uuidDraws, lock, pc, args, last_event, event,
                      raised, now, acquired, report, phase, pristine, repairVars,
                      record_event, toolVars>>

NextCtxCrash ==
    \/ NextCtx
    \/ CtxCrash

\* the event of an invocation is appended after _write_refs has returned,
\* so --record-event plays no part in a crash; the sessions here use off
InitCtxCrash == InitCtx /\ record_event = "off"

SpecCtxCrash == InitCtxCrash /\ [][NextCtxCrash]_vars

\* C24 as stated: after a crash at any point of a branch, switch, commit or
\* merge, refs.json holds the complete previous ref set or the complete new
\* one, and the next invocation reads that ref set, not a fresh default.
C24_RefsWriteAtomic ==
    [][lastOp'.action = "crash" =>
          /\ \E o \in WritingOutcomes : refsFile' \in {read_refs(refsFile), o.refs}
          /\ RefsAfter = refsFile']_vars

-----------------------------------------------------------------------------
(* typed_memory.py *)

\* the values given to --max-events and --max-items
Windows == {0, 1}
ItemLimits == {12}

\* the capture_event calls that fill the ledger before a summary: a note, a
\* warning with a task and paths, a decision that succeeded
TmArgs ==
    {DefaultArgs,
     [DefaultArgs EXCEPT !.status = "warning", !.summary = " fix b ", !.task = "t1",
                         !.paths = <<"a.py", " gone.py", "gone.py", " ">>],
     [DefaultArgs EXCEPT !.kind = "decision", !.status = "success", !.task = "t1",
                         !.paths = <<"a.py">>]}

\* _load_events: the lines that are JSON objects, in file order
tm_load_events(exists, lines) ==
    IF ~exists THEN <<>>
    ELSE LET objects == SelectSeq(lines, LAMBDA l : l.tag = "object")
         IN [i \in 1..Len(objects) |-> objects[i].obj]

\* events[-max_events:] when max_events > 0
Window(evs, max_events) ==
    IF max_events > 0 /\ Len(evs) > max_events
    THEN SubSeq(evs, Len(evs) - max_events + 1, Len(evs))
    ELSE evs

\* items[-limit:], for limit >= 1
LastItems(items, limit) ==
    IF Len(items) > limit THEN SubSeq(items, Len(items) - limit + 1, Len(items))
    ELSE items

\* str(ev.get(k) or ""), for the fields append_event writes as strings (the
\* strings of the model are in lower case and carry no outer blanks)
StrField(ev, k) == IF k \in DOMAIN ev THEN ev[k] ELSE ""

\* ev.get(k) or [], for the list fields
ListField(ev, k) == IF k \in DOMAIN ev THEN ev[k] ELSE <<>>

\* the concatenation of the list field k of the events, in order
RECURSIVE Gathered(_, _, _)
Gathered(evs, k, n) ==
    IF n = 0 THEN <<>> ELSE Gathered(evs, k, n - 1) \o ListField(evs[n], k)

\* the task of every event that has one, in order
TasksOf(evs) ==
    LET with_task == SelectSeq(evs, LAMBDA ev : StrField(ev, "task") # "")
    IN [i \in 1..Len(with_task) |-> with_task[i].task]

\* _top(counter, limit): Counter.most_common, by descending count, equal
\* counts in the order of first insertion
Top(items, limit) ==
    LET keys == unique_keep_order(items)
        count(v) == Cardinality({i \in 1..Len(items) : items[i] = v})
        before(i, j) == \/ count(keys[i]) > count(keys[j])
                        \/ count(keys[i]) = count(keys[j]) /\ i < j
        at(n) == CHOOSE i \in 1..Len(keys) :
                    Cardinality({j \in 1..Len(keys) : before(j, i)}) = n - 1
        size == IF Len(keys) < limit THEN Len(keys) ELSE limit
    IN [n \in 1..size |-> [value |-> keys[at(n)], count |-> count(keys[at(n)])]]

\* the snapshot dict of an event; a missing seq is None, a missing hash ""
Snapshot(ev) ==
    LET base == [timestamp |-> StrField(ev, "timestamp"),
                 hash |-> IF "hash" \in DOMAIN ev THEN ev.hash ELSE NoHash,
                 kind |-> StrField(ev, "kind"),
                 status |-> StrField(ev, "status"),
                 summary |-> StrField(ev, "summary"),
                 task |-> StrField(ev, "task")]
    IN IF "seq" \in DOMAIN ev THEN With(base, "seq", ev.seq) ELSE base

\* "decision" in summary.lower(), over the summaries of the model
MentionsDecision(summary) == summary \in {"decision", "a decision"}

IsDecision(ev) ==
    \/ StrField(ev, "kind") \in {"decision", "adr", "architecture-decision"}
    \/ MentionsDecision(StrField(ev, "summary"))

\* mutant: a warning is no risk
IsRiskFailureOnly(ev) ==
    \/ StrField(ev, "status") = "failure"
    \/ StrField(ev, "kind") \in {"risk", "incident", "bug"}

IsRisk(ev) ==
    \/ StrField(ev, "status") \in {"failure", "warning"}
    \/ StrField(ev, "kind") \in {"risk", "incident", "bug"}

IsSuccess(ev) == StrField(ev, "status") = "success"

Snapshots(evs, Keep(_)) ==
    LET kept == SelectSeq(evs, Keep) IN [i \in 1..Len(kept) |-> Snapshot(kept[i])]

\* _extract: the typed dict (repo_root, memory_root and events_file, which
\* main adds, are constants and are left out)
extract(evs, max_items, t) ==
    [schema |-> "context-continuity-typed-memory-v1",
     generated_at |-> utc_now_iso(t),
     event_count |-> Len(evs),
     decision_count |-> Len(Snapshots(evs, IsDecision)),
     risk_count |-> Len(Snapshots(evs, IsRisk)),
     success_count |-> Len(Snapshots(evs, IsSuccess)),
     top_tasks |-> Top(TasksOf(evs), max_items),
     top_paths |-> Top(Gathered(evs, "paths", Len(evs)), max_items),
     top_symbols |-> Top(Gathered(evs, "symbols", Len(evs)), max_items),
     top_commands |-> Top(Gathered(evs, "commands", Len(evs)), max_items),
     recent_decisions |-> LastItems(Snapshots(evs, IsDecision), max_items),
     open_risks |-> LastItems(Snapshots(evs, IsRisk), max_items),
     recent_successes |-> LastItems(Snapshots(evs, IsSuccess), max_items),
     latest_event |-> IF Len(evs) > 0 THEN evs[Len(evs)] ELSE <<>>]

\* json.dumps(payload, indent=2, sort_keys=True) + "\n": one text per dict
json_dumps(payload) == [tag |-> "object", indent |-> 2, obj |-> payload]

\* old_json != new_json, where a missing file reads as ""
TextChanged(file, new_json) == ~(file.exists /\ file.text = new_json)

\* should_record of typed_memory
TmShouldRecord(policy, is_changed) ==
    policy = "always" \/ (policy = "on-change" /\ is_changed)

\* the keyword arguments of the append_event call of typed_memory
TmEventArgs(payload, is_changed) ==
    [DefaultArgs EXCEPT !.kind = "typed-memory", !.status = "success",
                        !.summary = "refreshed typed-memory summary",
                        !.source = "typed-memory", !.task = "continuity-optimization",
                        !.paths = <<"typed-memory.json", "typed-memory.md">>,
                        !.payload = [event_count |-> payload.event_count,
                                     risk_count |-> payload.risk_count,
                                     decision_count |-> payload.decision_count,
                                     changed |-> is_changed]]

\* one run of typed_memory.py
Summarize(max_events, max_items, policy, no_write) ==
    \E evs \in {Window(tm_load_events(ledgerExists, ledger), max_events)} :
    \E payload \in {extract(evs, IF max_items > 1 THEN max_items ELSE 1, now)} :
    \E new_json \in {json_dumps(payload)} :
    \E is_changed \in {TextChanged(typed_json, new_json)} :
    \E should_record \in {TmShouldRecord(policy, is_changed)} :
       /\ phase = "build"
       /\ LockFree(lock)
       /\ should_record => Len(ledger) < MaxLines
       /\ typed_json' = IF no_write THEN typed_json
                        ELSE [exists |-> TRUE, text |-> new_json]
       /\ IF should_record
          THEN /\ ledger' = append_jsonl(ledger, AppendedEvent(TmEventArgs(payload, is_changed)))
               /\ ledgerExists' = TRUE
               /\ uuidDraws' = uuidDraws + 1
          ELSE UNCHANGED <<ledger, ledgerExists, uuidDraws>>
       /\ tmRun' = [ran |-> TRUE, ledger_read |-> FileOf(ledgerExists, ledger),
                    max_events |-> max_events, max_items |-> max_items,
                    new_json |-> new_json, changed |-> is_changed]
       /\ UNCHANGED <<lock, pc, args, last_event, event, raised, now, acquired, report,
                      phase, pristine, repairVars, ctxVars, sections, rhRun,
                      cycle_state, cyRun>>

NextSummarize ==
    \/ \E a \in TmArgs : AppendEvent(a)
    \/ Tick
    \/ \E max_events \in Windows : \E max_items \in ItemLimits :
          \E policy \in RecordPolicies : \E no_write \in BOOLEAN :
             Summarize(max_events, max_items, policy, no_write)

\* a ledger filled by capture_event calls and summarised again and again
SpecSummarize == InitBuild /\ [][NextSummarize]_vars

\* C26 as stated: a run of typed_memory that finds the ledger content and
\* the window (and --max-items) of the run before it, and in typed-memory.json
\* the summary that run made, produces the same serialized summary and
\* reports changed: False.
C26_SummarizeIdempotent ==
    [][\A max_events \in Windows : \A max_items \in ItemLimits :
         \A policy \in RecordPolicies : \A no_write \in BOOLEAN :
            (/\ Summarize(max_events, max_items, policy, no_write)
             /\ tmRun.ran
             /\ typed_json = [exists |-> TRUE, text |-> tmRun.new_json]
             /\ tmRun.ledger_read = FileOf(ledgerExists, ledger)
             /\ tmRun.max_events = max_events
             /\ tmRun.max_items = max_items)
            => /\ tmRun'.new_json = tmRun.new_json
               /\ ~tmRun'.changed]_vars

-----------------------------------------------------------------------------
(* rehydrate.py, run with --no-typed-memory and --no-write *)

\* the sections of ACTIVE_TASK.md that hold text, and the number of
\* characters compact_lines leaves of each (0: the section is empty)
InputTitles == {"Current Status", "Key Paths"}
BodySizes == {0, 10, 60}

\* the values given to --budget-tokens and --max-events, and the query terms
Budgets == {-1, 0, 80, 81, 120}
MaxEventsChoices == {1, 25}
TermSets == {{}}

\* the capture_event calls that fill the ledger before a compilation
RhArgs ==
    {DefaultArgs,
     [DefaultArgs EXCEPT !.status = "warning", !.summary = " fix b ", !.task = "t1",
                         !.paths = <<"a.py", " gone.py", "gone.py", " ">>]}

MemoryRoot == "/codex/memory/context-continuity/" \o RepoId
EventsPath == MemoryRoot \o "/events/events.jsonl"

\* len(str(n))
Digits(n) == Len(ToString(n))

\* approx_tokens, of a text of so many characters
approx_tokens(chars) ==
    LET estimate == (chars + 3) \div 4 IN IF estimate > 1 THEN estimate ELSE 1

\* len(header): 186 characters of fixed text (with none for the query, the
\* task and the typed memory), the two roots and the budget
HeaderChars(budget_tokens) ==
    186 + Len(RepoRoot) + Len(MemoryRoot) + Digits(budget_tokens)

\* len(", ".join(titles))
RECURSIVE JoinedTitleChars(_, _)
JoinedTitleChars(titles, n) ==
    IF n = 0 THEN 0
    ELSE JoinedTitleChars(titles, n - 1) + Len(titles[n]) + (IF n > 1 THEN 2 ELSE 0)

\* len(footer): 97 characters of fixed text, the figure, the omitted titles
\* (or none) and the path of the ledger
FooterChars(used_tokens, omitted_titles) ==
    97 + Digits(used_tokens)
       + (IF omitted_titles = <<>> THEN Len("none")
          ELSE JoinedTitleChars(omitted_titles, Len(omitted_titles)))
       + Len(EventsPath)

\* load_events of rehydrate: the lines that are JSON objects, in file order
rh_load_events(exists, lines) ==
    IF ~exists THEN <<>>
    ELSE LET objects == SelectSeq(lines, LAMBDA l : l.tag = "object")
         IN [i \in 1..Len(objects) |-> objects[i].obj]

\* _kind_bonus
kind_bonus(kind) ==
    CASE kind \in {"risk", "incident", "failure"} -> 12
      [] kind \in {"decision", "typed-memory", "automation"} -> 8
      [] kind \in {"test", "verify", "benchmark"} -> 7
      [] OTHER -> 0

status_bonus(status) ==
    CASE status = "failure" -> 22
      [] status = "warning" -> 14
      [] status = "success" -> 7
      [] OTHER -> 0

\* the terms of the model that occur in a string: a word of it, or all of it
TermsIn(s) ==
    CASE s = "fix a" -> {"fix", "fix a"}
      [] s = "fix b" -> {"fix", "fix b"}
      [] OTHER -> {s}

\* term in haystack
InHaystack(term, ev) ==
    \/ term \in TermsIn(StrField(ev, "summary")) \cup TermsIn(StrField(ev, "task"))
                   \cup TermsIn(StrField(ev, "kind"))
    \/ \E k \in {"paths", "symbols"} :
          \E i \in 1..Len(ListField(ev, k)) : term \in TermsIn(ListField(ev, k)[i])

\* event_score: the score (the trace is left out)
event_score(ev, recency_rank, terms, task_focus) ==
    (IF 28 - recency_rank > 0 THEN 28 - recency_rank ELSE 0)
    + status_bonus(StrField(ev, "status"))
    + kind_bonus(StrField(ev, "kind"))
    + 5 * Cardinality({term \in terms : InHaystack(term, ev)})
    + (IF task_focus # "" /\ InHaystack(task_focus, ev) THEN 9 ELSE 0)

\* event_score: the trace dict returned beside the score
score_trace(ev, recency_rank, terms, task_focus) ==
    [recency_rank |-> recency_rank,
     recency_score |-> IF 28 - recency_rank > 0 THEN 28 - recency_rank ELSE 0,
     status_bonus |-> status_bonus(StrField(ev, "status")),
     kind_bonus |-> kind_bonus(StrField(ev, "kind")),
     term_hits |-> {term \in terms : InHaystack(term, ev)},
     task_match |-> task_focus # "" /\ InHaystack(task_focus, ev)]

\* the rows (score, -idx, event, trace) of the events, most recent first
Scored(evs, terms, task_focus) ==
    [i \in 1..Len(evs) |->
       LET idx == i - 1
           ev == evs[Len(evs) - idx]
       IN [score |-> event_score(ev, idx, terms, task_focus), idx |-> idx, event |-> ev,
           trace |-> score_trace(ev, idx, terms, task_focus)]]

\* mutant: the rows are left in the order of recency
RankedByRecency(rows) == rows

\* scored.sort(key=lambda row: (row[0], row[1]), reverse=True)
Ranked(rows) ==
    LET before(a, b) == \/ rows[a].score > rows[b].score
                        \/ rows[a].score = rows[b].score /\ rows[a].idx < rows[b].idx
        at(n) == CHOOSE i \in 1..Len(rows) :
                    Cardinality({j \in 1..Len(rows) : before(j, i)}) = n - 1
    IN [n \in 1..Len(rows) |-> rows[at(n)]]

\* rows[:k]
SliceTo(rows, k) ==
    LET stop == IF k >= 0 THEN (IF k < Len(rows) THEN k ELSE Len(rows))
                ELSE (IF Len(rows) + k > 0 THEN Len(rows) + k ELSE 0)
    IN SubSeq(rows, 1, stop)

\* the trace lists at least this many rows of the ranking
TraceFloor == 20

\* max(args.max_events * 2, 20)
TraceLimit(max_events) ==
    IF max_events * 2 > TraceFloor THEN max_events * 2 ELSE TraceFloor

\* trace_ranked_events: one row for each of the first rows of the ranking
event_ranking(ranked, max_events) ==
    LET listed == SliceTo(ranked, TraceLimit(max_events))
    IN [i \in 1..Len(listed) |->
          [event |-> listed[i].event,
           score |-> listed[i].score,
           trace |-> listed[i].trace]]

\* len(", ".join(paths[:3]))
RECURSIVE JoinedPathChars(_, _)
JoinedPathChars(paths, n) ==
    IF n = 0 THEN 0
    ELSE JoinedPathChars(paths, n - 1) + Len(paths[n]) + (IF n > 1 THEN 2 ELSE 0)

\* render_event_line: the parts that make the line, and its length
render_event_line(ev) ==
    LET seq_chars == IF "seq" \in DOMAIN ev THEN Digits(ev.seq) ELSE 1
        ts == IF StrField(ev, "timestamp") # "" THEN ev.timestamp ELSE "?"
        kind == IF StrField(ev, "kind") # "" THEN ev.kind ELSE "note"
        status == IF StrField(ev, "status") # "" THEN ev.status ELSE "info"
        summary == StrField(ev, "summary")
        paths == SliceTo(ListField(ev, "paths"), 3)
        has_hash == "hash" \in DOMAIN ev /\ ev.hash # NoHash
    IN [event |-> ev,
        chars |-> 3 + seq_chars + 2 + Len(ts) + 2 + Len(kind) + 1 + Len(status) + 2
                  + Len(summary)
                  + (IF paths # <<>> THEN 10 + JoinedPathChars(paths, Len(paths)) ELSE 0)
                  + (IF has_hash THEN 8 + 10 ELSE 0)]

\* rendered_events, in the order of selected
RenderedEvents(evs, max_events, terms, task_focus) ==
    LET selected == SliceTo(Ranked(Scored(evs, terms, task_focus)), max_events)
    IN [i \in 1..Len(selected) |-> render_event_line(selected[i].event)]

\* len("\n".join(rendered_events))
RECURSIVE JoinedLineChars(_, _)
JoinedLineChars(lines, n) ==
    IF n = 0 THEN 0
    ELSE JoinedLineChars(lines, n - 1) + lines[n].chars + (IF n > 1 THEN 1 ELSE 0)

\* block_candidates, in the order of the source
BlockCandidates ==
    <<[title |-> "Active Objective", priority |-> 100],
      [title |-> "Acceptance Criteria", priority |-> 95],
      [title |-> "Constraints / Non-Goals", priority |-> 90],
      [title |-> "Current Status", priority |-> 88],
      [title |-> "Key Paths", priority |-> 87],
      [title |-> "Verification Commands", priority |-> 86],
      [title |-> "Open Risks (Typed)", priority |-> 85],
      [title |-> "Top Task Signals (Typed)", priority |-> 84],
      [title |-> "Top Path Signals (Typed)", priority |-> 83],
      [title |-> "Recent Decisions (Typed)", priority |-> 82],
      [title |-> "Project Repo Facts", priority |-> 72],
      [title |-> "Project Architecture Facts", priority |-> 70],
      [title |-> "Recent Decisions", priority |-> 68],
      [title |-> "Capsule Pointer", priority |-> 66],
      [title |-> "Capsule Excerpt", priority |-> 62],
      [title |-> "Ranked Events", priority |-> 58]>>

\* block_candidates.sort(key=lambda item: item[2], reverse=True)
ByPriority(cands) ==
    LET before(a, b) == \/ cands[a].priority > cands[b].priority
                        \/ cands[a].priority = cands[b].priority /\ a < b
        at(n) == CHOOSE i \in 1..Len(cands) :
                    Cardinality({j \in 1..Len(cands) : before(j, i)}) = n - 1
    IN [n \in 1..Len(cands) |-> cands[at(n)]]

\* len(body.strip()) of a candidate: the capsule pointer has its two fixed
\* lines (20 and 30 characters, no capsule), the ranked events their lines,
\* the sections of the notes what texts gives, and every other body is empty
BodyChars(title, texts, rendered) ==
    CASE title = "Capsule Pointer" -> 20 + 1 + 30
      [] title = "Ranked Events" -> JoinedLineChars(rendered, Len(rendered))
      [] title \in DOMAIN texts -> texts[title]
      [] OTHER -> 0

\* len(f"## {title}\n\n{body.strip()}\n")
BlockChars(title, body_chars) == 3 + Len(title) + 2 + body_chars + 1

\* mutant: the comparison is turned round
FitsInverted(used_tokens, block_tokens, budget_tokens) ==
    used_tokens + block_tokens >= budget_tokens

\* mutant: a block that fills the budget exactly is left out
FitsBelow(used_tokens, block_tokens, budget_tokens) ==
    used_tokens + block_tokens < budget_tokens

\* included = used_tokens + block_tokens <= args.budget_tokens
Fits(used_tokens, block_tokens, budget_tokens) ==
    used_tokens + block_tokens <= budget_tokens

\* one turn of the loop over block_candidates
PackOne(st, cand, body_chars, budget_tokens) ==
    IF body_chars = 0 THEN st
    ELSE LET block_tokens == approx_tokens(BlockChars(cand.title, body_chars))
             included == Fits(st.used_tokens, block_tokens, budget_tokens)
             row == [title |-> cand.title, priority |-> cand.priority,
                     approx_tokens |-> block_tokens, included |-> included]
         IN IF included
            THEN [st EXCEPT !.planner_trace = Append(@, row),
                            !.selected_blocks = Append(@, cand.title),
                            !.used_tokens = @ + block_tokens]
            ELSE [st EXCEPT !.planner_trace = Append(@, row),
                            !.omitted_titles = Append(@, cand.title)]

\* the loop over the first n candidates
RECURSIVE Pack(_, _, _, _, _)
Pack(cands, n, texts, rendered, budget_tokens) ==
    IF n = 0
    THEN [selected_blocks |-> <<"header">>,
          used_tokens |-> approx_tokens(HeaderChars(budget_tokens)),
          omitted_titles |-> <<>>,
          planner_trace |-> <<>>]
    ELSE PackOne(Pack(cands, n - 1, texts, rendered, budget_tokens), cands[n],
                 BodyChars(cands[n].title, texts, rendered), budget_tokens)

\* main, from load_events to the footer: what a run computes
compile(evs, texts, budget_tokens, max_events, terms, task_focus) ==
    LET rendered == RenderedEvents(evs, max_events, terms, task_focus)
        cands == ByPriority(BlockCandidates)
        packed == Pack(cands, Len(cands), texts, rendered, budget_tokens)
    IN [ran |-> TRUE,
        budget_tokens |-> budget_tokens,
        max_events |-> max_events,
        terms |-> terms,
        task_focus |-> task_focus,
        rendered_events |-> rendered,
        event_ranking |-> event_ranking(Ranked(Scored(evs, terms, task_focus)), max_events),
        selected_blocks |-> Append(packed.selected_blocks, "footer"),
        used_tokens |-> packed.used_tokens,
        omitted_titles |-> packed.omitted_titles,
        planner_trace |-> packed.planner_trace]

\* one run of rehydrate.py --task task_focus on the ledger and the notes as they are
CompileFocused(budget_tokens, max_events, terms, task_focus) ==
    /\ phase \in {"build", "compiled"}
    /\ rhRun' = compile(rh_load_events(ledgerExists, ledger), sections, budget_tokens,
                        max_events, terms, task_focus)
    /\ phase' = "compiled"
    /\ UNCHANGED <<ledgerExists, ledger, lock, pc, args, last_event, event, raised, now,
                   uuidDraws, acquired, report, pristine, repairVars, ctxVars,
                   typed_json, tmRun, sections, cycle_state, cyRun>>

\* one run of rehydrate.py with no --task
Compile(budget_tokens, max_events, terms) ==
    CompileFocused(budget_tokens, max_events, terms, "")

NextCompile ==
    \/ \E a \in RhArgs : AppendEvent(a)
    \/ \E budget_tokens \in Budgets : \E max_events \in MaxEventsChoices :
          \E terms \in TermSets : Compile(budget_tokens, max_events, terms)

\* notes with some text in their sections, and a ledger still to be filled
InitCompile ==
    /\ ledgerExists \in BOOLEAN
    /\ ledger = <<>>
    /\ lock = NoProc
    /\ pc = [p \in Procs |-> "idle"]
    /\ args = [p \in Procs |-> NoArgs]
    /\ last_event = [p \in Procs |-> NoneObj]
    /\ event = [p \in Procs |-> NoneObj]
    /\ raised = [p \in Procs |-> FALSE]
    /\ now = 0
    /\ uuidDraws = 0
    /\ acquired = <<>>
    /\ report = NoReport
    /\ phase = "build"
    /\ pristine = <<>>
    /\ RepairInit
    /\ CtxInit
    /\ typed_json = NoFile
    /\ tmRun = NoRun
    /\ sections \in [InputTitles -> BodySizes]
    /\ rhRun = NoRun
    /\ cycle_state = NoFile
    /\ cyRun = NoRun

\* a ledger is filled, then compiled any number of times
SpecCompile == InitCompile /\ [][NextCompile]_vars

-----------------------------------------------------------------------------
(* Properties of the compiled context (SpecCompile) *)

\* the tokens of the first n rows of a planner trace that were included
RECURSIVE IncludedTokens(_, _)
IncludedTokens(trace, n) ==
    IF n = 0 THEN 0
    ELSE IncludedTokens(trace, n - 1)
         + (IF trace[n].included THEN trace[n].approx_tokens ELSE 0)

\* the titles a run included, and those it omitted
IncludedTitles(run) ==
    {run.planner_trace[i].title :
        i \in {k \in 1..Len(run.planner_trace) : run.planner_trace[k].included}}

TitlesOf(rows) == [i \in 1..Len(rows) |-> rows[i].title]

\* the candidates whose body is not empty, for the last run
NonEmptyTitles ==
    {BlockCandidates[i].title :
        i \in {k \in 1..Len(BlockCandidates) :
                  BodyChars(BlockCandidates[k].title, sections, rhRun.rendered_events) > 0}}

HeaderTokens(run) == approx_tokens(HeaderChars(run.budget_tokens))

\* C27: the blocks with a body are considered in descending priority, each
\* at the cost of its whole text; a block is included if and only if the
\* header plus the blocks included before it plus its cost is at most the
\* budget; an included block is counted whole and listed in the document, a
\* block that does not fit is listed as omitted and adds nothing.
C27_GreedyPacking ==
    rhRun.ran =>
       LET trace == rhRun.planner_trace IN
       /\ {trace[i].title : i \in 1..Len(trace)} = NonEmptyTitles
       /\ \A i \in 1..Len(trace) : \A j \in 1..Len(trace) :
             i < j => trace[i].priority > trace[j].priority
       /\ \A i \in 1..Len(trace) :
             /\ trace[i].approx_tokens =
                   approx_tokens(BlockChars(trace[i].title,
                       BodyChars(trace[i].title, sections, rhRun.rendered_events)))
             /\ trace[i].included <=>
                   HeaderTokens(rhRun) + IncludedTokens(trace, i - 1)
                      + trace[i].approx_tokens <= rhRun.budget_tokens
       /\ rhRun.used_tokens = HeaderTokens(rhRun) + IncludedTokens(trace, Len(trace))
       /\ rhRun.selected_blocks =
             <<"header">> \o TitlesOf(SelectSeq(trace, LAMBDA row : row.included))
                          \o <<"footer">>
       /\ rhRun.omitted_titles = TitlesOf(SelectSeq(trace, LAMBDA row : ~row.included))

\* three blocks were included and the ranked events, which alone would have
\* fitted under the budget after the header, were omitted whole
C27_Witness ==
    /\ rhRun.ran
    /\ Len(rhRun.selected_blocks) = 5
    /\ rhRun.omitted_titles = <<"Ranked Events">>
    /\ \E i \in 1..Len(rhRun.planner_trace) :
          /\ rhRun.planner_trace[i].title = "Ranked Events"
          /\ HeaderTokens(rhRun) + rhRun.planner_trace[i].approx_tokens
                <= rhRun.budget_tokens

\* the run with another budget on the inputs of the last run
WithBudget(budget_tokens) ==
    compile(rh_load_events(ledgerExists, ledger), sections, budget_tokens,
            rhRun.max_events, {}, "")

\* C28 as stated: with every other input fixed, every block included under a
\* budget is included under every larger budget, and the tokens used under
\* the larger budget are at least those used under the smaller.
C28_BudgetMonotone ==
    rhRun.ran =>
       \A b2 \in Budgets :
          b2 > rhRun.budget_tokens =>
             /\ IncludedTitles(rhRun) \subseteq IncludedTitles(WithBudget(b2))
             /\ WithBudget(b2).used_tokens >= rhRun.used_tokens

\* C28, amended: with every other input fixed and budgets b1 < b2 that are
\* not negative, the tokens used under b2 are at least those used under b1,
\* and every block included under b1 ahead of the first block it omits is
\* included under b2 (a block included after an omitted one can be lost when
\* the omitted one comes to fit).
C28_BudgetMonotoneTotal ==
    (rhRun.ran /\ rhRun.budget_tokens >= 0) =>
       \A b2 \in Budgets :
          b2 > rhRun.budget_tokens =>
             /\ WithBudget(b2).used_tokens >= rhRun.used_tokens
             /\ \A i \in 1..Len(rhRun.planner_trace) :
                   (\A j \in 1..i : rhRun.planner_trace[j].included)
                      => rhRun.planner_trace[i].title \in IncludedTitles(WithBudget(b2))

\* a run that omitted the current status and included the key paths after
\* it, under a budget that is not the largest
C28_Witness ==
    /\ rhRun.ran
    /\ \E b2 \in Budgets : b2 > rhRun.budget_tokens
    /\ "Key Paths" \in IncludedTitles(rhRun)
    /\ \E i \in 1..Len(rhRun.omitted_titles) : rhRun.omitted_titles[i] = "Current Status"

\* C29 as stated: the header is the first and the footer the last block of
\* the document whatever the budget, and the tokens-used figure is the cost
\* of the header, of the included blocks and of the footer.
C29_HeaderFooterCounted ==
    rhRun.ran =>
       /\ rhRun.selected_blocks[1] = "header"
       /\ rhRun.selected_blocks[Len(rhRun.selected_blocks)] = "footer"
       /\ rhRun.used_tokens =
             HeaderTokens(rhRun)
             + IncludedTokens(rhRun.planner_trace, Len(rhRun.planner_trace))
             + approx_tokens(FooterChars(rhRun.used_tokens, rhRun.omitted_titles))

\* C30 as stated: the selected events are rendered most recently appended
\* first, whatever their scores.
C30_RenderedNewestFirst ==
    rhRun.ran =>
       \A i \in 1..Len(rhRun.rendered_events) : \A j \in 1..Len(rhRun.rendered_events) :
          i < j => rhRun.rendered_events[i].event.seq > rhRun.rendered_events[j].event.seq

-----------------------------------------------------------------------------
(* rehydrate.py: the ranking of the events, over ledgers of many shapes *)

\* the capture_event calls whose events are ranked: the three statuses with a
\* bonus, an incident of task t1 and a decision
RankArgs ==
    {[DefaultArgs EXCEPT !.status = "success"],
     [DefaultArgs EXCEPT !.status = "warning"],
     [DefaultArgs EXCEPT !.status = "failure"],
     [DefaultArgs EXCEPT !.kind = "incident", !.summary = "fix b", !.task = "t1"],
     [DefaultArgs EXCEPT !.kind = "decision"]}

\* the ledger after one more call, the n-th, on the ledger before it
AfterCall(before, a, n) ==
    append_jsonl(before,
        Sealed(EventNoHash(a, read_last_jsonl_obj(n > 1, before), n > 1, before,
                           0, 0, n)))

\* the ledger that the first n calls of calls, one after the other, leave behind
RECURSIVE LedgerAfter(_, _)
LedgerAfter(calls, n) ==
    IF n = 0 THEN <<>> ELSE AfterCall(LedgerAfter(calls, n - 1), calls[n], n)

LedgerOf(calls) == LedgerAfter(calls, Len(calls))

\* every ledger of up to MaxLines events, and ledgers longer than the floor
\* of the trace
RankLedgers ==
    {LedgerOf(calls) : calls \in UNION {[1..k -> RankArgs] : k \in 0..MaxLines}}
    \cup {LedgerOf([i \in 1..k |-> DefaultArgs]) : k \in {TraceFloor, TraceFloor + 1}}

\* the values given to --max-events, the query terms, and the values of --task
RankMaxEvents == {0, 1, 2, 25}
RankTermSets == {{}, {"fix"}, {"fix b", "incident"}}
RankTasks == {"", "t1"}

\* one run on each ledger
NextRank ==
    \E max_events \in RankMaxEvents : \E terms \in RankTermSets :
       \E task_focus \in RankTasks :
          phase = "build" /\ CompileFocused(120, max_events, terms, task_focus)

\* a ledger that earlier calls have filled, and notes with no text
InitRank ==
    /\ ledger \in RankLedgers
    /\ ledgerExists = TRUE
    /\ lock = NoProc
    /\ pc = [p \in Procs |-> "idle"]
    /\ args = [p \in Procs |-> NoArgs]
    /\ last_event = [p \in Procs |-> NoneObj]
    /\ event = [p \in Procs |-> NoneObj]
    /\ raised = [p \in Procs |-> FALSE]
    /\ now = 0
    /\ uuidDraws = Len(ledger)
    /\ acquired = <<>>
    /\ report = NoReport
    /\ phase = "build"
    /\ pristine = <<>>
    /\ RepairInit
    /\ CtxInit
    /\ typed_json = NoFile
    /\ tmRun = NoRun
    /\ sections = [t \in InputTitles |-> 0]
    /\ rhRun = NoRun
    /\ cycle_state = NoFile
    /\ cyRun = NoRun

SpecRank == InitRank /\ [][NextRank]_vars

\* the events rehydrate loads from the ledger as it is
LoadedEvents == rh_load_events(ledgerExists, ledger)

\* C31 as stated: the trace lists every event of the ledger, each with its
\* score and the breakdown of its score, whatever the size of the ledger and
\* the value of max_events.
C31_TraceListsEveryEvent ==
    rhRun.ran =>
       \A i \in 1..Len(LoadedEvents) :
          \E r \in 1..Len(rhRun.event_ranking) :
             LET row == rhRun.event_ranking[r]
                 rank == Len(LoadedEvents) - i
             IN /\ row.event = LoadedEvents[i]
                /\ row.score = event_score(LoadedEvents[i], rank, rhRun.terms,
                                           rhRun.task_focus)
                /\ row.trace = score_trace(LoadedEvents[i], rank, rhRun.terms,
                                           rhRun.task_focus)

\* the score the ranking rule gives the i-th event of the ledger
RuleScore(i) ==
    LET ev == LoadedEvents[i]
        recency_rank == Len(LoadedEvents) - i
        status == StrField(ev, "status")
    IN (IF 28 - recency_rank > 0 THEN 28 - recency_rank ELSE 0)
       + (CASE status = "failure" -> 22
            [] status = "warning" -> 14
            [] status = "success" -> 7
            [] OTHER -> 0)
       + kind_bonus(StrField(ev, "kind"))
       + 5 * Cardinality({term \in rhRun.terms : InHaystack(term, ev)})
       + (IF rhRun.task_focus # "" /\ InHaystack(rhRun.task_focus, ev) THEN 9 ELSE 0)

\* event i of the ledger comes before event j in the order of the rule
RuleBefore(i, j) ==
    \/ RuleScore(i) > RuleScore(j)
    \/ RuleScore(i) = RuleScore(j) /\ i > j

\* the place in the ledger of a rendered event
PlaceOf(ev) == CHOOSE i \in 1..Len(LoadedEvents) : LoadedEvents[i] = ev

\* C37: each event's score is max(0, 28 - recency_rank) + status bonus
\* (failure 22, warning 14, success 7, else 0) + kind bonus + 5 per matched
\* term + 9 on a task-focus match; the events are ordered by descending
\* score, equal scores more recent first, and the first max_events of that
\* order are the selection; events appended as success, warning, failure and
\* alike otherwise are ranked failure, warning, success.
C37_ScoreAndOrder ==
    rhRun.ran =>
       LET n == Len(LoadedEvents)
           chosen == [k \in 1..Len(rhRun.rendered_events) |->
                         PlaceOf(rhRun.rendered_events[k].event)]
       IN /\ Len(chosen) = (IF rhRun.max_events < n THEN rhRun.max_events ELSE n)
          /\ \A k \in 1..Len(chosen) : \A m \in 1..Len(chosen) :
                k < m => RuleBefore(chosen[k], chosen[m])
          /\ \A i \in 1..n :
                (\A k \in 1..Len(chosen) : chosen[k] # i)
                   => \A k \in 1..Len(chosen) : RuleBefore(chosen[k], i)
          /\ \A r \in 1..Len(rhRun.event_ranking) :
                rhRun.event_ranking[r].score =
                   RuleScore(PlaceOf(rhRun.event_ranking[r].event))
          /\ (/\ n = 3
              /\ rhRun.max_events >= 3
              /\ [i \in 1..3 |-> LoadedEvents[i].status]
                    = <<"success", "warning", "failure">>
              /\ \A i \in 1..3 : LoadedEvents[i].kind = "note")
             => chosen = <<3, 2, 1>>

\* three events appended as success, warning, failure were ranked with a
\* query term that all of them match
C37_Witness ==
    /\ rhRun.ran
    /\ Len(LoadedEvents) = 3
    /\ rhRun.terms = {"fix"}
    /\ [k \in 1..Len(rhRun.rendered_events) |-> rhRun.rendered_events[k].event.status]
          = <<"failure", "warning", "success">>
    /\ rhRun.event_ranking[1].score = 28 + 22 + 5

-----------------------------------------------------------------------------
(* auto_cycle.py: one cycle per run *)

\* the defaults of --budget-tokens and --snapshot-min-seconds
CycleBudget == 1200
SnapshotMinSeconds == 1800

\* the step of a cycle at which a child process fails, if one does
CycleFailures == {"none", "bootstrap", "typed-memory", "rehydrate", "snapshot"}

\* the capture_event calls of the other sources, between cycles
OtherSourceArgs == RhArgs

\* read_text: the text of a file, or the empty text
ReadText(file) == IF file.exists THEN file.text ELSE [tag |-> "empty"]

sha256_text(text) == <<"sha256", text>>

\* int(time.time()) at the clock value t
now_ts(t) == 1714557600 + t

\* load_state: the dict of auto-cycle-state.json, or {}
load_state(file) == IF file.exists THEN file.obj ELSE <<>>

\* dict a after a.update(b)
Updated(a, b) ==
    [k \in DOMAIN a \cup DOMAIN b |-> IF k \in DOMAIN b THEN b[k] ELSE a[k]]

\* last_material_event_signature: hash and seq of the last record whose
\* source is not auto-cycle
last_material_event_signature(exists, lines) ==
    LET evs == rh_load_events(exists, lines)
        material == SelectSeq(evs, LAMBDA ev : StrField(ev, "source") # "auto-cycle")
    IN IF material = <<>> THEN [hash |-> NoHash, seq |-> ""]
       ELSE LET ev == material[Len(material)]
            IN [hash |-> IF "hash" \in DOMAIN ev THEN ev.hash ELSE NoHash,
                seq |-> IF "seq" \in DOMAIN ev THEN ToString(ev.seq) ELSE ""]

\* fingerprint, outside a git work tree; the notes are those bootstrap left
\* or the user wrote, and DECISIONS.md and PROJECT_MEMORY.md stay as they are
fingerprint(notes, typed, exists, lines, budget_tokens, query, task) ==
    LET sig == last_material_event_signature(exists, lines)
        base == [repo_root |-> RepoRoot,
                 active_task_hash |-> sha256_text(notes),
                 decisions_hash |-> sha256_text("DECISIONS.md"),
                 project_memory_hash |-> sha256_text("PROJECT_MEMORY.md"),
                 typed_memory_hash |-> sha256_text(ReadText(typed)),
                 event_hash |-> sig.hash,
                 event_seq |-> sig.seq,
                 budget_tokens |-> ToString(budget_tokens),
                 query |-> Strip(query),
                 task |-> Strip(task),
                 git_enabled |-> "false"]
    IN With(base, "fingerprint", sha256_text(stable_json(base)))

\* the keyword arguments of the append_event calls of run_cycle
CycleEventArgs(status, summary, task, payload) ==
    [DefaultArgs EXCEPT !.kind = "automation", !.status = status, !.summary = summary,
                        !.source = "auto-cycle",
                        !.task = IF task # "" THEN task ELSE "auto-cycle",
                        !.payload = payload]

\* append_event on the lines of the file, at clock t, with the u-th uuid
append_event(lines, a, t, u) ==
    append_jsonl(lines,
        Sealed(EventNoHash(a, read_last_jsonl_obj(TRUE, lines), TRUE, lines, t, t, u)))

\* the refresh typed_memory.py --record-event off writes
CycleTypedJson(lines, t) ==
    json_dumps(extract(Window(tm_load_events(TRUE, lines), 500), 12, t))

\* changed = force or (fp.get("fingerprint") != prev_fp)
CycleChanged(force, fp, prev_fp) == force \/ fp.fingerprint # prev_fp

\* run_cycle after a bootstrap that succeeded: what it returns and how it
\* leaves the files
run_cycle(budget_tokens, query, task, force, fails) ==
    LET fp == fingerprint(sections, typed_json, TRUE, ledger, budget_tokens, query, task)
        state == load_state(cycle_state)
        prev_fp == IF "fingerprint" \in DOMAIN state THEN state.fingerprint ELSE NoHash
        is_changed == CycleChanged(force, fp, prev_fp)
        verified == Verify(TRUE, ledger, TRUE)
        last_snapshot_ts == IF "last_snapshot_ts" \in DOMAIN state
                            THEN state.last_snapshot_ts ELSE 0
        snapshot_due == now_ts(now) - last_snapshot_ts >= SnapshotMinSeconds
        took_snapshot == snapshot_due /\ fails # "snapshot"
        refreshed == [exists |-> TRUE, text |-> CycleTypedJson(ledger, now)]
        failed(status, summary, msg, typed, refreshed_typed, compiled) ==
            [ok |-> FALSE, msg |-> msg, changed |-> is_changed,
             lines |-> append_event(ledger,
                          CycleEventArgs(status, summary, task, EmptyPayload),
                          now, uuidDraws + 1),
             draws |-> 1, typed |-> typed, state |-> cycle_state,
             refreshed |-> refreshed_typed, compiled |-> compiled]
        after_snapshot ==
            IF snapshot_due /\ fails = "snapshot"
            THEN append_event(ledger,
                     CycleEventArgs("warning", "auto-cycle snapshot failed", task,
                                    EmptyPayload),
                     now, uuidDraws + 1)
            ELSE ledger
        draws_before == IF snapshot_due /\ fails = "snapshot" THEN 1 ELSE 0
        with_snapshot == IF took_snapshot
                         THEN With(With(state, "last_snapshot_path", "capsule"),
                                   "last_snapshot_ts", now_ts(now))
                         ELSE state
    IN IF verified.exit # 0
       THEN failed("warning", "auto-cycle detected verify_memory failure",
                   "verify_memory strict failed", typed_json, FALSE, FALSE)
       ELSE IF ~is_changed
       THEN [ok |-> TRUE, msg |-> "no state change; skipped rehydrate/snapshot",
             changed |-> FALSE, lines |-> ledger, draws |-> 0, typed |-> typed_json,
             state |-> [exists |-> TRUE,
                        obj |-> With(state, "last_run_at", utc_now_iso(now))],
             refreshed |-> FALSE, compiled |-> FALSE]
       ELSE IF fails = "typed-memory"
       THEN failed("warning", "auto-cycle failed during typed-memory refresh",
                   "typed-memory refresh failed", typed_json, FALSE, FALSE)
       ELSE IF fails = "rehydrate"
       THEN failed("failure", "auto-cycle failed during rehydrate",
                   "rehydrate failed", refreshed, TRUE, FALSE)
       ELSE [ok |-> TRUE, msg |-> "updated rehydrated context", changed |-> TRUE,
             lines |-> append_event(after_snapshot,
                          CycleEventArgs("success",
                              IF took_snapshot
                              THEN "auto-cycle refreshed rehydrated context + snapshot"
                              ELSE "auto-cycle refreshed rehydrated context",
                              task,
                              [budget_tokens |-> budget_tokens, query |-> Strip(query),
                               task |-> Strip(task), snapshot_taken |-> took_snapshot]),
                          now, uuidDraws + draws_before + 1),
             draws |-> draws_before + 1,
             typed |-> refreshed,
             state |-> [exists |-> TRUE,
                        obj |-> With(Updated(with_snapshot, fp), "last_run_at",
                                     utc_now_iso(now))],
             refreshed |-> TRUE, compiled |-> TRUE]

\* one run of auto_cycle.py without --watch
RunCycle(force, fails) ==
    /\ phase = "build"
    /\ LockFree(lock)
    /\ IF fails = "bootstrap"
       THEN /\ cyRun' = [ran |-> TRUE, ok |-> FALSE, msg |-> "bootstrap failed",
                         changed |-> FALSE, force |-> force, lines_after |-> Len(ledger)]
            /\ UNCHANGED <<ledgerExists, ledger, uuidDraws, typed_json, tmRun, rhRun,
                           cycle_state>>
       ELSE LET out == run_cycle(CycleBudget, "", "", force, fails)
            IN /\ Len(out.lines) <= MaxLines
               /\ ledgerExists' = TRUE
               /\ ledger' = out.lines
               /\ uuidDraws' = uuidDraws + out.draws
               /\ typed_json' = out.typed
               /\ tmRun' = IF out.refreshed
                           THEN [ran |-> TRUE, ledger_read |-> FileOf(TRUE, ledger),
                                 max_events |-> 500, max_items |-> 12,
                                 new_json |-> CycleTypedJson(ledger, now),
                                 changed |-> TextChanged(typed_json,
                                                 CycleTypedJson(ledger, now))]
                           ELSE tmRun
               /\ rhRun' = IF out.compiled
                           THEN compile(rh_load_events(TRUE, ledger), sections,
                                        CycleBudget, 25, {}, "")
                           ELSE rhRun
               /\ cycle_state' = out.state
               /\ cyRun' = [ran |-> TRUE, ok |-> out.ok, msg |-> out.msg,
                            changed |-> out.changed, force |-> force,
                            lines_after |-> Len(out.lines)]
    /\ UNCHANGED <<lock, pc, args, last_event, event, raised, now, acquired, report,
                   phase, pristine, repairVars, ctxVars, sections>>

NextCycle ==
    \/ \E a \in OtherSourceArgs : AppendEvent(a)
    \/ Tick
    \/ \E force \in BOOLEAN : \E fails \in CycleFailures : RunCycle(force, fails)

\* cycles, with events of other sources and the clock between them
SpecCycle == InitBuild /\ [][NextCycle]_vars

\* C32 as stated: a cycle that follows a cycle that completed successfully,
\* with nothing but the clock changed between them (no event of another
\* source, the same notes, budget, query and task, no --force), finds the
\* digest unchanged, skips the typed-memory refresh, the recompilation and the
\* snapshot, and appends no event.
C32_UnchangedCycleSkips ==
    [][(/\ cyRun.ran
        /\ cyRun.ok
        /\ cyRun.lines_after = Len(ledger)
        /\ cyRun'.ran
        /\ ~cyRun'.force
        /\ RunCycle(FALSE, "none"))
       => /\ ~cyRun'.changed
          /\ ledger' = ledger
          /\ typed_json' = typed_json
          /\ rhRun' = rhRun]_vars

-----------------------------------------------------------------------------
(* Properties of the seq and prev_hash checks of verify (SpecScan) *)

\* the seq of the last of the first n lines that is a record whose seq is a
\* positive integer one greater than the reference before it; 0 if none is
RECURSIVE ValidSeqBefore(_, _)
ValidSeqBefore(lines, n) ==
    IF n = 0 THEN 0
    ELSE LET before == ValidSeqBefore(lines, n - 1)
         IN IF /\ lines[n].tag = "object"
               /\ "seq" \in DOMAIN lines[n].obj
               /\ lines[n].obj.seq = before + 1
            THEN lines[n].obj.seq
            ELSE before

\* verify reported a finding of one of these kinds for this line
FoundAt(findings, line_no, kinds) ==
    \E k \in 1..Len(findings) : findings[k].line = line_no /\ findings[k].what \in kinds

\* C33 as stated: verify reports a seq error for a record if and only if its
\* seq is absent, not a positive integer, or not one greater than the previous
\* valid seq (0 before the first record); a record whose seq was reported does
\* not become the reference for the records after it.
C33_SeqErrors ==
    Verified =>
       \A i \in 1..Len(ledger) :
          ledger[i].tag = "object" =>
             (FoundAt(report.errors, i, {"invalid seq", "non-contiguous seq"})
                <=> \/ "seq" \notin DOMAIN ledger[i].obj
                    \/ ledger[i].obj.seq <= 0
                    \/ ledger[i].obj.seq # ValidSeqBefore(ledger, i - 1) + 1)

\* the lines of the file that are well-formed records
RecordLines == {i \in 1..Len(ledger) : ledger[i].tag = "object"}

\* the stored hash of the record before line i, NoHash if it stores none
HashBefore(i) ==
    LET before == {j \in RecordLines : j < i}
        j == CHOOSE x \in before : \A y \in before : y <= x
    IN IF "hash" \in DOMAIN ledger[j].obj THEN ledger[j].obj.hash ELSE NoHash

\* C34 as stated: for every record after the first well-formed record of
\* the file, verify reports a prev_hash error if and only if the record's
\* prev_hash differs from the stored hash of the record immediately before
\* it, and the warning that the first record has prev_hash set is raised for
\* the very first record only.
C34_PrevHashErrors ==
    Verified =>
       \A i \in RecordLines :
          IF \A j \in RecordLines : i <= j
          THEN TRUE
          ELSE /\ FoundAt(report.errors, i, {"prev_hash mismatch"})
                    <=> PrevHashOf(ledger[i].obj) # HashBefore(i)
               /\ ~FoundAt(report.warnings, i, {"first event has prev_hash set"})

-----------------------------------------------------------------------------
(* Properties of append on an arbitrary file (SpecScan) *)

\* C35: append gives the new record seq 1 on an empty ledger, the seq of the
\* last non-blank line plus one when that line is a readable record with an
\* integer seq, and the number of non-blank lines plus one when that line is
\* unreadable; the new record's prev_hash is the hash of the last record
\* exactly when that record is readable and carries a hash, and is absent
\* otherwise.
C35_AppendSeqRules ==
    [][(/\ Len(ledger') = Len(ledger) + 1
        /\ \E a \in AcceptedArgs : AppendEvent(a))
       => LET written == ledger'[Len(ledger')].obj
              lines == IF ledgerExists THEN NonBlank(ledger) ELSE <<>>
              last == lines[Len(lines)]
              readable == lines # <<>> /\ last.tag = "object"
          IN /\ lines = <<>> => written.seq = 1
             /\ (readable /\ "seq" \in DOMAIN last.obj)
                   => written.seq = last.obj.seq + 1
             /\ (lines # <<>> /\ ~readable) => written.seq = Len(lines) + 1
             /\ IF readable /\ "hash" \in DOMAIN last.obj
                THEN "prev_hash" \in DOMAIN written
                     /\ written.prev_hash = last.obj.hash
                ELSE "prev_hash" \notin DOMAIN written]_vars

\* a record appended after an unreadable line that followed a record whose
\* seq had skipped a number: it is numbered by the count of lines and has
\* no prev_hash
C35_Witness ==
    /\ Len(ledger) = 3
    /\ ledger[1].tag = "object"
    /\ "seq" \in DOMAIN ledger[1].obj /\ ledger[1].obj.seq = 2
    /\ ledger[2].tag = "garbage"
    /\ ledger[3].tag = "object"
    /\ "seq" \in DOMAIN ledger[3].obj /\ ledger[3].obj.seq = 3
    /\ "prev_hash" \notin DOMAIN ledger[3].obj
    /\ "hash" \in DOMAIN ledger[3].obj

-----------------------------------------------------------------------------
(* typed_memory.py: the summary, over ledgers of many shapes *)

\* the capture_event calls whose events are summarised
ExtractArgs ==
    {[DefaultArgs EXCEPT !.status = "success"],
     [DefaultArgs EXCEPT !.status = "warning"],
     [DefaultArgs EXCEPT !.status = "failure"],
     [DefaultArgs EXCEPT !.kind = "incident"],
     [DefaultArgs EXCEPT !.kind = "decision", !.status = "success"]}

\* every ledger of up to MaxLines of their events
ExtractLedgers ==
    {LedgerOf(calls) : calls \in UNION {[1..k -> ExtractArgs] : k \in 0..MaxLines}}

\* the values given to --max-events and --max-items
ExtractWindows == {0, 1, 2}
ExtractLimits == {1, 2, 12}

NextExtract ==
    \E max_events \in ExtractWindows : \E max_items \in ExtractLimits :
       Summarize(max_events, max_items, "off", FALSE)

\* a ledger that earlier calls have filled, and no summary yet
InitExtract ==
    /\ ledger \in ExtractLedgers
    /\ ledgerExists = TRUE
    /\ lock = NoProc
    /\ pc = [p \in Procs |-> "idle"]
    /\ args = [p \in Procs |-> NoArgs]
    /\ last_event = [p \in Procs |-> NoneObj]
    /\ event = [p \in Procs |-> NoneObj]
    /\ raised = [p \in Procs |-> FALSE]
    /\ now = 0
    /\ uuidDraws = Len(ledger)
    /\ acquired = <<>>
    /\ report = NoReport
    /\ phase = "build"
    /\ pristine = <<>>
    /\ RepairInit
    /\ CtxInit
    /\ ToolInit

SpecExtract == InitExtract /\ [][NextExtract]_vars

\* the seq values of the events of a list of snapshots or of events
SeqsOf(items) == [k \in 1..Len(items) |-> items[k].seq]

\* the last limit items of a list
MostRecent(items, limit) ==
    SubSeq(items, IF Len(items) > limit THEN Len(items) - limit + 1 ELSE 1, Len(items))

\* C36: over the most recent window events (0 = all), risk_count is the
\* number of events whose status is warning or failure or whose kind is
\* incident-like, and each curated list (decisions, risks, successes) holds
\* exactly the most recent top_n matching events, in ledger order; three
\* events with statuses success, warning, failure give risk_count 2.
C36_RiskCountAndLists ==
    tmRun.ran =>
       LET all == tm_load_events(ledgerExists, ledger)
           n == Len(all)
           first == IF tmRun.max_events > 0 /\ n > tmRun.max_events
                    THEN n - tmRun.max_events + 1 ELSE 1
           evs == SubSeq(all, first, n)
           risky(ev) == \/ ev.status \in {"warning", "failure"}
                        \/ ev.kind \in {"risk", "incident", "bug"}
           decided(ev) == ev.kind \in {"decision", "adr", "architecture-decision"}
           succeeded(ev) == ev.status = "success"
           summary == tmRun.new_json.obj
       IN /\ summary.event_count = Len(evs)
          /\ summary.risk_count = Cardinality({i \in 1..Len(evs) : risky(evs[i])})
          /\ SeqsOf(summary.open_risks)
                = MostRecent(SeqsOf(SelectSeq(evs, risky)), tmRun.max_items)
          /\ SeqsOf(summary.recent_decisions)
                = MostRecent(SeqsOf(SelectSeq(evs, decided)), tmRun.max_items)
          /\ SeqsOf(summary.recent_successes)
                = MostRecent(SeqsOf(SelectSeq(evs, succeeded)), tmRun.max_items)
          /\ (/\ tmRun.max_events = 0
              /\ [i \in 1..n |-> all[i].status] = <<"success", "warning", "failure">>
              /\ \A i \in 1..n : all[i].kind = "note")
             => summary.risk_count = 2

\* the events success, warning, failure summarised whole, one item a list
C36_Witness ==
    /\ tmRun.ran
    /\ tmRun.max_events = 0
    /\ tmRun.max_items = 1
    /\ [i \in 1..Len(ledger) |-> ledger[i].obj.status] = <<"success", "warning", "failure">>
    /\ \A i \in 1..Len(ledger) : ledger[i].obj.kind = "note"
    /\ tmRun.new_json.obj.risk_count = 2
    /\ SeqsOf(tmRun.new_json.obj.open_risks) = <<3>>

-----------------------------------------------------------------------------
(* repair_events_chain.py while capture_event processes append *)

\* a whole capture_event call at any point of a repair run: append_event
\* holds the lock of the ledger, which repair never takes
RacingAppend(a) ==
    /\ phase = "repair"
    /\ Len(ledger) < MaxLines
    /\ LockFree(lock)
    /\ ledger' = append_jsonl(ledger, AppendedEvent(a))
    /\ ledgerExists' = TRUE
    /\ uuidDraws' = uuidDraws + 1
    /\ UNCHANGED <<lock, pc, args, last_event, event, raised, now, acquired, report,
                   phase, pristine>>
    /\ UNCHANGED <<repairVars, ctxVars, toolVars>>

NextRepairRace ==
    \/ NextRepair
    \/ \E a \in RepairArgs : RacingAppend(a)

\* repair runs on a ledger that other processes keep appending to
SpecRepairRace == InitBuild /\ [][NextRepairRace]_vars

\* the event_ids of the records of some lines
EventIdsOf(lines) ==
    {lines[i].obj.event_id :
        i \in {k \in 1..Len(lines) :
                  lines[k].tag = "object" /\ "event_id" \in DOMAIN lines[k].obj}}

\* C38 as stated: no appended event is lost when repair runs while events
\* are appended: no step of an append or of a repair run removes from the
\* ledger a record that an append call that returned has written, so every
\* such record is still there when both have finished.
C38_NoAppendLost ==
    [][EventIdsOf(ledger) \subseteq EventIdsOf(ledger')]_vars

-----------------------------------------------------------------------------
(* Heads and parents of the branch graph (SpecCtx) *)

\* every head of the ref set r that is not null names a file of the store
HeadsStored(r, store) ==
    \A b \in DOMAIN r.branches :
        r.branches[b] # NoHead => r.branches[b] \in DOMAIN store

\* C39 as stated: in every state reachable by init, branch, switch, commit
\* and merge, each branch head that is not null is the id of a commit of the
\* commit store, and every parent id recorded in a stored commit is the id
\* of a commit that was stored before it.
C39_HeadsAndParentsStored ==
    [][/\ HeadsStored(RefsAfter, commits')
       /\ \A id \in DOMAIN commits' \ DOMAIN commits :
             \A i \in 1..Len(commits'[id].parents) :
                 commits'[id].parents[i] \in DOMAIN commits]_vars

-----------------------------------------------------------------------------
(* typed_memory.py --record-event on-change, run again and again *)

\* one run that writes the summary, under the policy on-change
SummarizeOnChange ==
    \E max_events \in Windows : \E max_items \in ItemLimits :
        Summarize(max_events, max_items, "on-change", FALSE)

\* capture_event calls fill the ledger; from the first summary on,
\* typed_memory is the only writer
NextOnChange ==
    \/ \E a \in TmArgs : ~tmRun.ran /\ AppendEvent(a)
    \/ Tick
    \/ SummarizeOnChange

\* the runs are repeated: a run that can start does start
SpecOnChange == InitBuild /\ [][NextOnChange]_vars /\ WF_vars(SummarizeOnChange)

\* every run so far found the summary changed
EveryRunChanged == tmRun.ran => tmRun.changed

====
